---- MODULE Spec2Model ----
(***************************************************************************)
(* The price-feed storage entity (PriceFeedAccount) and the update_price   *)
(* protocol (UpdatePriceInstruction) of the Solana keeper service.         *)
(*                                                                         *)
(* Decimal values are integers.  A JavaScript value that may be undefined  *)
(* or null is a sequence of length 0 (absent) or 1 (present).  Confidence  *)
(* is counted in hundredths: the protocol's "0.95" is 95, the storage      *)
(* entity's 95 (on its 0-100 scale) is 9500.  Date.now() is the variable   *)
(* now, in milliseconds from the origin of the model's clock.              *)
(***************************************************************************)
EXTENDS Integers, Sequences, FiniteSets, TLC

VARIABLES
  account,         \* the PriceFeedAccount
  now,             \* Date.now()
  recorded,        \* the samples given to addToHistory since the ring was allocated, oldest first
  everRecorded,    \* the prices recorded into the ring over the life of the account
  firstAuthority,  \* the authority given to the first initialize
  inits,           \* the number of initialize calls made
  updates,         \* the number of samples given to addToHistory over the life of the account
  result,          \* the last operation, its inputs and what it returned or threw
  failures,        \* the updates of the initialized account that failed, counted up to errorThreshold
  keeper,          \* the KeeperService
  timers,          \* the setInterval timers that were not cleared
  cycles,          \* the processPriceUpdates calls: where each one stands
  spawned,         \* the number of processPriceUpdates calls begun
  reader,          \* the PriceReader: its cache and its metrics
  connection,      \* the connection of the reader: the getAccountInfo calls made
  pending,         \* the reads of the reader that await getAccountInfo
  fetchedAt,       \* per address, when the last read with caching got its data from the connection, since the last clearCache
  held,            \* the value a caller of a query of the account kept
  oracle           \* the PriceOracle

\* the variables of the keeper
keeperVars == <<keeper, timers, cycles, spawned>>

\* the variables of the reader
readerVars == <<reader, connection, pending, fetchedAt>>

\* the variables beside these: what a caller of a query of the account kept,
\* and the PriceOracle
otherVars == <<held, oracle>>

vars == <<account, now, recorded, everRecorded, firstAuthority, inits, updates, result,
          failures, keeperVars, readerVars, otherVars>>

----------------------------------------------------------------------------
(* Bounds of the model *)

\* history.maxEntries of the model (1000 in the source)
maxEntries == 2

\* samples recorded into the ring over the life of the account
MaxUpdates == 3

\* initialize calls made on the account
MaxInits == 2

\* processPriceUpdates calls begun by one keeper
MaxCycles == 3

\* the updates of one batch
MaxBatch == 5

\* the sources of one confidence calculation
MaxSources == 3

\* the reads made by one reader
MaxReads == 3

----------------------------------------------------------------------------
(* Values *)

Undefined == <<>>

Some(v) == <<v>>

IsDefined(x) == x # <<>>

ValOf(x) == x[1]

Abs(x) == IF x < 0 THEN -x ELSE x

Max(a, b) == IF a >= b THEN a ELSE b

Min(a, b) == IF a <= b THEN a ELSE b

MaxOf(S) == CHOOSE x \in S : \A y \in S : y <= x

MinOf(S) == CHOOSE x \in S : \A y \in S : x <= y

\* Number.MAX_SAFE_INTEGER, the initial allTimeLow: 2^53 - 1 in the source;
\* here the largest integer of the model's arithmetic.  Every price of the
\* model lies far below it.
MAX_SAFE_INTEGER == 2147483647

OneDayMs == 24 * 60 * 60 * 1000

SevenDaysMs == 7 * 24 * 60 * 60 * 1000

\* The instants at which Date.now() is read
Times == {1000, 1001}

Keys == {"keeper", "intruder"}

Pairs == {"SOL/USDC", "BTC/USDT"}

OracleProgram == "11111111111111111111111111111111"

\* prices given to updates: zero and positive ones
Prices == {0, 1, 2}

----------------------------------------------------------------------------
(* Errors *)

\* ProgramError
UNAUTHORIZED == 4097

INVALID_PRICE == 4098

STALE_DATA == 4099

INVALID_CONFIDENCE == 4100

ACCOUNT_NOT_INITIALIZED == 4101

INVALID_SLOT == 4102

INSUFFICIENT_SOURCES == 4103

PRICE_TOO_OLD == 4104

NoError == [name |-> "none", code |-> 0]

\* throw new Error(`ProgramError: ${code} - ...`)
ProgramErr(code) == [name |-> "ProgramError", code |-> code]

\* new Decimal(undefined): [DecimalError] Invalid argument: undefined
DecimalError == [name |-> "DecimalError", code |-> 0]

\* throw new Error('Account not initialized') of updatePrice
NotInitializedError == [name |-> "Error: Account not initialized", code |-> 0]

----------------------------------------------------------------------------
(* PriceFeedAccount *)

\* validation.circuitBreaker.errorThreshold
errorThreshold == 5

\* new PriceFeedAccount()
NewAccount ==
  [ version |-> 1,
    isInitialized |-> FALSE,
    authority |-> Undefined,
    createdAt |-> 0,
    lastUpdated |-> 0,
    tokenPair |-> [pairId |-> ""],
    currentPrice |-> [ price |-> Some(0),
                       confidence |-> Some(0),
                       sources |-> Some(<<>>),
                       lastUpdateSlot |-> 0,
                       slot |-> Undefined,
                       decimal |-> Undefined ],
    statistics |-> [ high24h |-> 0, low24h |-> 0,
                     change24h |-> 0,
                     changePercent24h |-> [num |-> 0, den |-> 1],
                     high7d |-> 0, low7d |-> 0,
                     allTimeHigh |-> 0, allTimeLow |-> 0,
                     allTimeHighDate |-> 0, allTimeLowDate |-> 0,
                     totalUpdates |-> 0, successfulUpdates |-> 0 ],
    history |-> [ maxEntries |-> maxEntries,
                  currentIndex |-> 0,
                  entries |-> <<>> ],
    performance |-> [ updatesPerSecond |-> 0, updatesPerMinute |-> 0,
                      peakThroughput |-> 0, successRate |-> 0 ],
    validation |-> [ circuitBreaker |->
                       [ enabled |-> TRUE,
                         errorThreshold |-> errorThreshold,
                         timeWindow |-> 60000,
                         recoveryTime |-> 300000,
                         currentErrors |-> 0,
                         lastError |-> 0,
                         isBroken |-> FALSE ] ],
    oracle |-> [programId |-> Undefined],
    lastUpdateSlot |-> Undefined ]

\* initialize(tokenPair, authority, oracleProgram); t is Date.now()
initialize(a, tokenPair, authority, oracleProgram, t) ==
  [a EXCEPT
     !.isInitialized = TRUE,
     !.authority = Some(authority),
     !.createdAt = t,
     !.lastUpdated = t,
     !.tokenPair = [pairId |-> tokenPair],
     !.oracle.programId = Some(oracleProgram),
     !.history.entries = [i \in 1..a.history.maxEntries |-> Undefined],
     !.statistics.allTimeHigh = 0,
     !.statistics.allTimeLow = MAX_SAFE_INTEGER]

\* addToHistory(entry).  The ring's slots are numbered from 1 here, so the
\* slot written is currentIndex + 1.
addToHistory(a, entry) ==
  [a EXCEPT
     !.history.entries[a.history.currentIndex + 1] = Some(entry),
     !.history.currentIndex = (a.history.currentIndex + 1) % a.history.maxEntries]

\* the entries of the ring that are not null and not older than since
RecentEntries(a, since) ==
  { i \in 1..Len(a.history.entries) :
      /\ IsDefined(a.history.entries[i])
      /\ ValOf(a.history.entries[i]).timestamp >= since }

\* new Decimal(entry.price) throws for one of the entries
AnyUndefinedPrice(a, idx) ==
  \E i \in idx : ~IsDefined(ValOf(a.history.entries[i]).price)

PricesOf(a, idx) == { ValOf(ValOf(a.history.entries[i]).price) : i \in idx }

\* this.currentPrice = {...this.currentPrice, ...priceData,
\*                      lastUpdateSlot: priceData.slot || 0}
\* A priceData object carries price, confidence, sources and possibly slot;
\* a Decimal instance carries only its own fields (s, e, d, constructor),
\* kept here as the field decimal.
SpreadCurrentPrice(cp, priceData) ==
  IF priceData.kind = "Decimal"
  THEN [cp EXCEPT !.decimal = Some(priceData.value),
                  !.lastUpdateSlot = 0]
  ELSE [cp EXCEPT !.price = priceData.price,
                  !.confidence = priceData.confidence,
                  !.sources = priceData.sources,
                  !.slot = IF IsDefined(priceData.slot) THEN priceData.slot ELSE @,
                  !.lastUpdateSlot = IF IsDefined(priceData.slot)
                                     THEN ValOf(priceData.slot) ELSE 0]

\* update24hStats(price, timestamp): the statistics afterwards.  Entries
\* carry no volume, so volume24h is left alone.
update24hStats(a, t) ==
  LET idx == RecentEntries(a, t - OneDayMs)
  IN IF idx = {} THEN a
     ELSE [a EXCEPT !.statistics.high24h = MaxOf(PricesOf(a, idx)),
                    !.statistics.low24h = MinOf(PricesOf(a, idx))]

\* update24hStats throws: new Decimal(entry.price) of an entry without price
update24hStatsThrows(a, t) == AnyUndefinedPrice(a, RecentEntries(a, t - OneDayMs))

\* update7dStats(price, timestamp)
update7dStats(a, t) ==
  LET idx == RecentEntries(a, t - SevenDaysMs)
  IN IF idx = {} THEN a
     ELSE [a EXCEPT !.statistics.high7d = MaxOf(PricesOf(a, idx)),
                    !.statistics.low7d = MinOf(PricesOf(a, idx))]

update7dStatsThrows(a, t) == AnyUndefinedPrice(a, RecentEntries(a, t - SevenDaysMs))

\* the all-time part of updateStatistics
UpdateAllTime(a, price, t) ==
  LET hi == IF price > a.statistics.allTimeHigh
            THEN [a EXCEPT !.statistics.allTimeHigh = price,
                           !.statistics.allTimeHighDate = t]
            ELSE a
  IN IF price < hi.statistics.allTimeLow
     THEN [hi EXCEPT !.statistics.allTimeLow = price,
                     !.statistics.allTimeLowDate = t]
     ELSE hi

\* the price-change part of updateStatistics; the percentage is kept as the
\* fraction change * 100 / oldPrice
UpdateChange(a, price, oldPrice) ==
  IF IsDefined(oldPrice) /\ ValOf(oldPrice) > 0
  THEN [a EXCEPT !.statistics.change24h = price - ValOf(oldPrice),
                 !.statistics.changePercent24h =
                    [num |-> (price - ValOf(oldPrice)) * 100, den |-> ValOf(oldPrice)]]
  ELSE a

\* updatePerformanceMetrics(timestamp)
updatePerformanceMetrics(a, t) ==
  LET recentUpdates1s == Cardinality(RecentEntries(a, t - 1000))
      recentUpdates1m == Cardinality(RecentEntries(a, t - 60000))
  IN [a EXCEPT
        !.performance.updatesPerSecond = recentUpdates1s,
        !.performance.updatesPerMinute = recentUpdates1m,
        !.performance.peakThroughput = Max(@, recentUpdates1s),
        !.performance.successRate =
           IF a.statistics.totalUpdates > 0
           THEN (a.statistics.successfulUpdates * 100) \div a.statistics.totalUpdates
           ELSE @]

\* the sample updatePrice records into the ring
HistoryEntry(priceData, t) ==
  [ price |-> priceData.price,
    timestamp |-> t,
    sources |-> priceData.sources,
    confidence |-> priceData.confidence ]

\* updatePrice(priceData) at Date.now() = t: the account afterwards and the
\* error thrown, if any.  A throw leaves the writes made before it in place.
updatePrice(a, priceData, t) ==
  IF ~a.isInitialized
  THEN [account |-> a, error |-> NotInitializedError]
  ELSE
    LET oldPrice == a.currentPrice.price
        a1 == [a EXCEPT !.currentPrice = SpreadCurrentPrice(@, priceData)]
        a2 == addToHistory(a1, HistoryEntry(priceData, t))
        a3 == update24hStats(a2, t)
        a4 == update7dStats(a3, t)
        a5 == UpdateAllTime(a4, ValOf(priceData.price), t)
        a6 == UpdateChange(a5, ValOf(priceData.price), oldPrice)
        a7 == updatePerformanceMetrics(a6, t)
        a8 == [a7 EXCEPT !.lastUpdated = t,
                         !.statistics.totalUpdates = @ + 1]
    IN IF ~IsDefined(priceData.price)
         THEN [account |-> a2, error |-> DecimalError]
       ELSE IF update24hStatsThrows(a2, t)
         THEN [account |-> a2, error |-> DecimalError]
       ELSE IF update7dStatsThrows(a3, t)
         THEN [account |-> a3, error |-> DecimalError]
       ELSE [account |-> a8, error |-> NoError]

\* a priceData object as the callers of the storage entity build it
PriceDataObject(price, confidence, sources, slot) ==
  [ kind |-> "object", price |-> Some(price), confidence |-> Some(confidence),
    sources |-> Some(sources), slot |-> slot, value |-> 0 ]

\* the first argument processUpdatePriceInstruction gives to updatePrice:
\* new Decimal(instructionData.price), which has no price, confidence,
\* sources or slot property
PriceDataDecimal(price) ==
  [ kind |-> "Decimal", price |-> Undefined, confidence |-> Undefined,
    sources |-> Undefined, slot |-> Undefined, value |-> price ]

\* the stable sort of getPriceHistory: entries with the larger timestamp
\* first, entries with equal timestamps in the order they have in s
RECURSIVE InsertDesc(_, _)
InsertDesc(sorted, e) ==
  IF sorted = <<>> THEN <<e>>
  ELSE IF Head(sorted).timestamp >= e.timestamp
       THEN <<Head(sorted)>> \o InsertDesc(Tail(sorted), e)
       ELSE <<e>> \o sorted

RECURSIVE SortDesc(_)
SortDesc(s) ==
  IF s = <<>> THEN <<>>
  ELSE InsertDesc(SortDesc(SubSeq(s, 1, Len(s) - 1)), s[Len(s)])

\* entries.filter(entry => entry !== null), in slot order
RECURSIVE NonNull(_)
NonNull(entries) ==
  IF entries = <<>> THEN <<>>
  ELSE IF IsDefined(Head(entries))
       THEN <<ValOf(Head(entries))>> \o NonNull(Tail(entries))
       ELSE NonNull(Tail(entries))

\* getPriceHistory(limit), limit >= 0
getPriceHistory(a, limit) ==
  LET sorted == SortDesc(NonNull(a.history.entries))
  IN SubSeq(sorted, 1, Min(limit, Len(sorted)))

\* validation.maximumAge
maximumAge == 300000

\* validation.confidenceThreshold, 70 on the 0-100 scale
confidenceThreshold == 70 * 100

\* the errors validate() pushes, in the order of its checks
ValidationErrors(a, t) ==
  (IF ~a.isInitialized THEN <<"Account not initialized">> ELSE <<>>)
  \o (IF ~IsDefined(a.authority) THEN <<"No authority set">> ELSE <<>>)
  \o (IF a.tokenPair.pairId = "" THEN <<"No token pair ID set">> ELSE <<>>)
  \o (IF ValOf(a.currentPrice.price) <= 0 THEN <<"Invalid current price">> ELSE <<>>)
  \o (IF IsDefined(a.currentPrice.confidence)
         /\ ValOf(a.currentPrice.confidence) < confidenceThreshold
      THEN <<"Price confidence below threshold">> ELSE <<>>)
  \o (IF t - a.lastUpdated > maximumAge THEN <<"Price data is stale">> ELSE <<>>)

\* validate() reporting the first violation only
validate_FirstOnly(a, t) ==
  LET errors == ValidationErrors(a, t)
  IN [ isValid |-> errors = <<>>,
       errors |-> IF errors = <<>> THEN <<>> ELSE <<Head(errors)>> ]

\* validate() at Date.now() = t
validate(a, t) ==
  LET errors == ValidationErrors(a, t)
  IN [ isValid |-> Len(errors) = 0, errors |-> errors ]

\* getCurrentPrice() at Date.now() = t
getCurrentPrice(a, t) ==
  [ price |-> a.currentPrice.price,
    confidence |-> a.currentPrice.confidence,
    sources |-> a.currentPrice.sources,
    lastUpdated |-> a.lastUpdated,
    age |-> t - a.lastUpdated,
    isStale |-> (t - a.lastUpdated) > maximumAge ]

\* getStatistics() at Date.now() = t
getStatistics(a, t) ==
  [ current |-> getCurrentPrice(a, t),
    statistics |-> a.statistics,
    performance |-> a.performance ]

\* the characters of a decimal number
Digits == <<"0", "1", "2", "3", "4", "5", "6", "7", "8", "9">>

\* Decimal.prototype.toString() of a natural number: its digits
RECURSIVE NatToString(_)
NatToString(n) ==
  IF n < 10 THEN <<Digits[n + 1]>>
  ELSE NatToString(n \div 10) \o <<Digits[(n % 10) + 1]>>

\* Decimal.prototype.toString()
DecimalToString(n) ==
  IF n < 0 THEN <<"-">> \o NatToString(-n) ELSE NatToString(n)

RECURSIVE ParseNat(_)
ParseNat(str) ==
  IF str = <<>> THEN 0
  ELSE ParseNat(SubSeq(str, 1, Len(str) - 1)) * 10
       + (CHOOSE d \in 0..9 : Digits[d + 1] = str[Len(str)])

\* new Decimal(str) that loses the sign
NewDecimal_Unsigned(str) ==
  IF Head(str) = "-" THEN ParseNat(Tail(str)) ELSE ParseNat(str)

\* new Decimal(str)
NewDecimal(str) ==
  IF Head(str) = "-" THEN -ParseNat(Tail(str)) ELSE ParseNat(str)

\* PublicKey.prototype.toString(): the base58 text of a key
PublicKeyToString(key) == [base58 |-> key]

\* new PublicKey(text)
NewPublicKey(text) == text.base58

\* the value of the Decimal changePercent24h, kept as a fraction
FractionValue(f) == f.num \div f.den

\* serializeStatistics(): every Decimal of the statistics as its text
serializeStatistics(a) ==
  [ a.statistics EXCEPT
      !.high24h = DecimalToString(@),
      !.low24h = DecimalToString(@),
      !.change24h = DecimalToString(@),
      !.changePercent24h = DecimalToString(FractionValue(@)),
      !.high7d = DecimalToString(@),
      !.low7d = DecimalToString(@),
      !.allTimeHigh = DecimalToString(@),
      !.allTimeLow = DecimalToString(@) ]

\* serialize()
serialize(a) ==
  [ version |-> a.version,
    isInitialized |-> a.isInitialized,
    authority |-> IF IsDefined(a.authority)
                  THEN Some(PublicKeyToString(ValOf(a.authority)))
                  ELSE Undefined,
    tokenPair |-> a.tokenPair,
    currentPrice |-> [a.currentPrice EXCEPT !.price = DecimalToString(ValOf(@))],
    statistics |-> serializeStatistics(a),
    lastUpdated |-> a.lastUpdated ]

\* deserializeStatistics(stats): the fields of decimalFields become
\* Decimals again (a text is never empty, so every one of them is converted)
deserializeStatistics(stats) ==
  [ stats EXCEPT
      !.high24h = NewDecimal(@),
      !.low24h = NewDecimal(@),
      !.change24h = NewDecimal(@),
      !.changePercent24h = [num |-> NewDecimal(@), den |-> 1],
      !.high7d = NewDecimal(@),
      !.low7d = NewDecimal(@),
      !.allTimeHigh = NewDecimal(@),
      !.allTimeLow = NewDecimal(@) ]

\* PriceFeedAccount.deserialize(data): a new account with the serialized
\* fields written over it
deserialize(data) ==
  [ NewAccount EXCEPT
      !.version = data.version,
      !.isInitialized = data.isInitialized,
      !.authority = IF IsDefined(data.authority)
                    THEN Some(NewPublicKey(ValOf(data.authority)))
                    ELSE Undefined,
      !.tokenPair = data.tokenPair,
      !.currentPrice = [data.currentPrice EXCEPT !.price = Some(NewDecimal(@))],
      !.statistics = deserializeStatistics(data.statistics),
      !.lastUpdated = data.lastUpdated ]

----------------------------------------------------------------------------
(* UpdatePriceInstruction *)

\* this.maxPriceAge, in seconds
maxPriceAge == 300

\* this.minConfidence, new Decimal('0.01'), in hundredths
minConfidence == 1

\* the upper end of the confidence range, 1, in hundredths
maxConfidence == 100

\* this.minSources
minSources == 1

\* validateInstructionParams with the confidence check moved before the
\* price check
validateInstructionParams_ConfidenceFirst(params, t) ==
  LET currentTime == t \div 1000
      priceAge == currentTime - params.timestamp
  IN IF ~IsDefined(params.priceFeedAccount) THEN ProgramErr(ACCOUNT_NOT_INITIALIZED)
     ELSE IF ~IsDefined(params.authority) THEN ProgramErr(UNAUTHORIZED)
     ELSE IF params.confidence < minConfidence \/ params.confidence > maxConfidence
       THEN ProgramErr(INVALID_CONFIDENCE)
     ELSE IF params.price <= 0 THEN ProgramErr(INVALID_PRICE)
     ELSE IF params.slot <= 0 THEN ProgramErr(INVALID_SLOT)
     ELSE IF priceAge > maxPriceAge THEN ProgramErr(PRICE_TOO_OLD)
     ELSE IF Len(params.sources) < minSources THEN ProgramErr(INSUFFICIENT_SOURCES)
     ELSE NoError

\* validateInstructionParams(params) at Date.now() = t: the error thrown, or
\* NoError.  priceFeedAccount and authority may be absent.
validateInstructionParams(params, t) ==
  LET currentTime == t \div 1000
      priceAge == currentTime - params.timestamp
  IN IF ~IsDefined(params.priceFeedAccount) THEN ProgramErr(ACCOUNT_NOT_INITIALIZED)
     ELSE IF ~IsDefined(params.authority) THEN ProgramErr(UNAUTHORIZED)
     ELSE IF params.price <= 0 THEN ProgramErr(INVALID_PRICE)
     ELSE IF params.confidence < minConfidence \/ params.confidence > maxConfidence
       THEN ProgramErr(INVALID_CONFIDENCE)
     ELSE IF params.slot <= 0 THEN ProgramErr(INVALID_SLOT)
     ELSE IF priceAge > maxPriceAge THEN ProgramErr(PRICE_TOO_OLD)
     ELSE IF Len(params.sources) < minSources THEN ProgramErr(INSUFFICIENT_SOURCES)
     ELSE NoError

\* the program the instructions are addressed to
ProgramId == "PriceOracle"

\* instruction.createUpdatePriceInstruction(params): the error thrown by the
\* validation, or the instruction
createUpdatePriceInstruction(params, t) ==
  LET err == validateInstructionParams(params, t)
  IN IF err # NoError
       THEN [ thrown |-> TRUE, error |-> err ]
       ELSE [ thrown |-> FALSE,
              instruction |->
                [ keys |-> << [pubkey |-> params.priceFeedAccount,
                               isSigner |-> FALSE, isWritable |-> TRUE],
                              [pubkey |-> params.authority,
                               isSigner |-> TRUE, isWritable |-> FALSE] >>,
                  programId |-> ProgramId,
                  data |-> [ instruction |-> 0, price |-> params.price,
                             confidence |-> params.confidence, slot |-> params.slot,
                             timestamp |-> params.timestamp,
                             sources |-> params.sources ] ] ]

\* instruction.createBatchUpdateInstructions({priceUpdates, authority}): the
\* instructions of the updates whose instruction could be created, in the
\* order of the updates; the value returned is this array
RECURSIVE createBatchUpdateInstructions(_, _, _)
createBatchUpdateInstructions(priceUpdates, authority, t) ==
  IF priceUpdates = <<>> THEN <<>>
  ELSE LET update == Head(priceUpdates)
           made == createUpdatePriceInstruction(
                     [ priceFeedAccount |-> update.priceFeedAccount,
                       authority |-> authority,
                       price |-> update.price,
                       confidence |-> update.confidence,
                       slot |-> update.slot,
                       timestamp |-> update.timestamp,
                       sources |-> update.sources ], t)
           rest == createBatchUpdateInstructions(Tail(priceUpdates), authority, t)
       IN IF made.thrown THEN rest ELSE <<made.instruction>> \o rest

\* A confidence of calculateConfidence is a fraction num/den with den > 0,
\* or NaN.  Decimal's rounding to 20 significant digits is left out.
Fraction(num, den) == [nan |-> FALSE, num |-> num, den |-> den]

NotANumber == [nan |-> TRUE, num |-> 0, den |-> 1]

\* a.lt(b), false when a is NaN
FractionLt(a, b) == ~a.nan /\ a.num * b.den < b.num * a.den

\* the sum of the prices of the sources
RECURSIVE SumPrices(_)
SumPrices(sources) ==
  IF sources = <<>> THEN 0 ELSE Head(sources).price + SumPrices(Tail(sources))

\* the sum over the sources of |n * price - total|, which is n times the sum
\* of the distances p.minus(avgPrice).abs()
RECURSIVE SumDistances(_, _, _)
SumDistances(sources, n, total) ==
  IF sources = <<>> THEN 0
  ELSE Abs(n * Head(sources).price - total) + SumDistances(Tail(sources), n, total)

\* the floor and the ceiling of calculateConfidence
ConfidenceFloor == Fraction(1, 10)

ConfidenceCeiling == Fraction(19, 20)

\* calculateConfidence without the clamp at the floor
calculateConfidence_NoFloor(sources) ==
  IF Len(sources) = 0 THEN Fraction(0, 1)
  ELSE IF Len(sources) = 1 THEN Fraction(1, 2)
  ELSE LET n == Len(sources)
           total == SumPrices(sources)
           distances == SumDistances(sources, n, total)
           confidence == IF total = 0 THEN NotANumber
                         ELSE IF total > 0
                              THEN Fraction(total * n - 10 * distances, total * n)
                              ELSE Fraction(10 * distances - total * n, -(total * n))
       IN IF FractionLt(ConfidenceCeiling, confidence) THEN ConfidenceCeiling
          ELSE confidence

\* factory.calculateConfidence(sources).  With avgPrice = total/n, the
\* variance of the code is the mean of |p - avgPrice| / avgPrice, that is
\* distances / (total * n), and the confidence is 1 - 10 * variance.  A
\* division by an average of 0 gives NaN, which no clamp changes.
calculateConfidence(sources) ==
  IF Len(sources) = 0 THEN Fraction(0, 1)
  ELSE IF Len(sources) = 1 THEN Fraction(1, 2)
  ELSE LET n == Len(sources)
           total == SumPrices(sources)
           distances == SumDistances(sources, n, total)
           confidence == IF total = 0 THEN NotANumber
                         ELSE IF total > 0
                              THEN Fraction(total * n - 10 * distances, total * n)
                              ELSE Fraction(10 * distances - total * n, -(total * n))
           floored == IF FractionLt(confidence, ConfidenceFloor) THEN ConfidenceFloor
                      ELSE confidence
       IN IF FractionLt(ConfidenceCeiling, floored) THEN ConfidenceCeiling
          ELSE floored

\* the params processUpdatePriceInstruction validates: the instruction data,
\* the signer and a dummy account reference
ParamsOf(instructionData, authority) ==
  [ price |-> instructionData.price,
    confidence |-> instructionData.confidence,
    slot |-> instructionData.slot,
    timestamp |-> instructionData.timestamp,
    sources |-> instructionData.sources,
    authority |-> Some(authority),
    priceFeedAccount |-> Some(OracleProgram) ]

\* processUpdatePriceInstruction without the comparison of the signer with
\* account.authority
processUpdatePriceInstruction_AnySigner(a, authority, instructionData, t) ==
  LET invalid == validateInstructionParams(ParamsOf(instructionData, authority), t)
      upd == updatePrice(a, PriceDataDecimal(instructionData.price), t)
  IN IF ~a.isInitialized
       THEN [account |-> a, success |-> FALSE, error |-> ProgramErr(ACCOUNT_NOT_INITIALIZED)]
     ELSE IF invalid # NoError
       THEN [account |-> a, success |-> FALSE, error |-> invalid]
     ELSE IF upd.error # NoError
       THEN [account |-> upd.account, success |-> FALSE, error |-> upd.error]
     ELSE [account |-> [upd.account EXCEPT !.lastUpdateSlot = Some(instructionData.slot)],
           success |-> TRUE, error |-> NoError]

\* processUpdatePriceInstruction({account, authority, instructionData}) at
\* Date.now() = t: the account afterwards, and the success flag and error
\* of the returned result
processUpdatePriceInstruction(a, authority, instructionData, t) ==
  LET invalid == validateInstructionParams(ParamsOf(instructionData, authority), t)
      upd == updatePrice(a, PriceDataDecimal(instructionData.price), t)
  IN IF ~IsDefined(a.authority) \/ ValOf(a.authority) # authority
       THEN [account |-> a, success |-> FALSE, error |-> ProgramErr(UNAUTHORIZED)]
     ELSE IF ~a.isInitialized
       THEN [account |-> a, success |-> FALSE, error |-> ProgramErr(ACCOUNT_NOT_INITIALIZED)]
     ELSE IF invalid # NoError
       THEN [account |-> a, success |-> FALSE, error |-> invalid]
     ELSE IF upd.error # NoError
       THEN [account |-> upd.account, success |-> FALSE, error |-> upd.error]
     ELSE [account |-> [upd.account EXCEPT !.lastUpdateSlot = Some(instructionData.slot)],
           success |-> TRUE, error |-> NoError]

----------------------------------------------------------------------------
(* KeeperService *)

\* config.priceThreshold: 0.01, kept as the fraction 1/100
priceThreshold == [num |-> 1, den |-> 100]

\* new KeeperService(config)
NewKeeper ==
  [ isRunning |-> FALSE,
    updateInterval |-> Undefined,
    lastPrices |-> [token \in Pairs |-> Undefined],
    updateCount |-> 0,
    errorCount |-> 0,
    stats |-> [ totalUpdates |-> 0, successfulUpdates |-> 0,
                failedUpdates |-> 0, totalTransactions |-> 0,
                priceUpdates |-> [token \in Pairs |-> Undefined] ] ]

\* shouldUpdatePrice that answers upward moves only
shouldUpdatePrice_UpOnly(k, token, newPrice) ==
  LET lastPrice == k.lastPrices[token]
  IN IF ~IsDefined(lastPrice) THEN TRUE
     ELSE LET lastPriceValue == ValOf(lastPrice).price
          IN IF lastPriceValue = 0 THEN newPrice # 0
             ELSE (newPrice - lastPriceValue) * priceThreshold.den
                    >= priceThreshold.num * Abs(lastPriceValue)

\* shouldUpdatePrice(token, newPriceData) for a price that is a number or
\* a Decimal.  A last price of zero makes the quotient NaN (new price zero,
\* answer false) or Infinity (answer true).
shouldUpdatePrice(k, token, newPrice) ==
  LET lastPrice == k.lastPrices[token]
  IN IF ~IsDefined(lastPrice) THEN TRUE
     ELSE LET lastPriceValue == ValOf(lastPrice).price
          IN IF lastPriceValue = 0 THEN newPrice # 0
             ELSE Abs(newPrice - lastPriceValue) * priceThreshold.den
                    >= priceThreshold.num * Abs(lastPriceValue)

\* sendPriceUpdate after the confirmation, without the count of the pair
sendPriceUpdateConfirmed_NoPairCount(k, token, price, t) ==
  [k EXCEPT !.stats.totalTransactions = @ + 1,
            !.stats.successfulUpdates = @ + 1,
            !.lastPrices[token] = Some([price |-> price, timestamp |-> t])]

\* sendPriceUpdate(token, price) after the transaction is confirmed at
\* Date.now() = t.  stats.priceUpdates is a Map: a pair without entry gets
\* the entry 0 first.
sendPriceUpdateConfirmed(k, token, price, t) ==
  [k EXCEPT !.stats.totalTransactions = @ + 1,
            !.stats.successfulUpdates = @ + 1,
            !.lastPrices[token] = Some([price |-> price, timestamp |-> t]),
            !.stats.priceUpdates[token] = IF IsDefined(@) THEN Some(ValOf(@) + 1)
                                          ELSE Some(0 + 1)]

\* a catch block of sendPriceUpdate that counts the error only
sendPriceUpdateThrown_ErrorCountOnly(k) ==
  [k EXCEPT !.errorCount = @ + 1]

\* the catch block of sendPriceUpdate
sendPriceUpdateThrown(k) ==
  [k EXCEPT !.stats.failedUpdates = @ + 1,
            !.errorCount = @ + 1]

\* config.minWalletBalance, 0.1 SOL in lamports
minWalletBalance == 100000000

\* config.maxTransactionFee, 0.01 SOL in lamports
maxTransactionFee == 10000000

\* the memo program
MemoProgram == "MemoSq4gqABAXKb96qnH8TysNcWxMyWCqXgDLGmfcHr"

\* createPriceUpdateTransaction(token, price) at Date.now() = t.  instruction
\* tells how the oracle update instruction fares: "unconfigured" when no
\* oracle program or no price account of the token is configured, "built"
\* when createKeeperInstruction returns, "failed" when it throws.
createPriceUpdateTransaction(token, price, instruction, t) ==
  [ instructions |->
      << [programId |-> "ComputeBudget", action |-> "setComputeUnitLimit"],
         [programId |-> "ComputeBudget", action |-> "setComputeUnitPrice"],
         IF instruction = "built"
         THEN [programId |-> ProgramId, action |-> "update_price"]
         ELSE IF instruction = "failed"
         THEN [programId |-> MemoProgram, action |-> "price_update_fallback"]
         ELSE [programId |-> MemoProgram, action |-> "price_update"] >>,
    token |-> token, price |-> price, timestamp |-> t ]

InsufficientBalanceError ==
  [name |-> "Insufficient wallet balance for transaction", code |-> 0]

FeeTooHighError == [name |-> "Transaction fee too high", code |-> 0]

SendError == [name |-> "sendAndConfirmTransaction", code |-> 0]

\* sendPriceUpdate without the comparison of the fee with maxTransactionFee
sendPriceUpdate_NoFeeCheck(k, token, price, o, t) ==
  IF o.balance < minWalletBalance
  THEN [ keeper |-> sendPriceUpdateThrown(k), submitted |-> Undefined,
         error |-> InsufficientBalanceError ]
  ELSE LET transaction == createPriceUpdateTransaction(token, price, o.instruction, t)
       IN IF ~o.confirmed
          THEN [ keeper |-> sendPriceUpdateThrown(k), submitted |-> Some(transaction),
                 error |-> SendError ]
          ELSE [ keeper |-> sendPriceUpdateConfirmed(k, token, price, t),
                 submitted |-> Some(transaction), error |-> NoError ]

\* sendPriceUpdate(token, price) at Date.now() = t: the keeper afterwards,
\* the transaction given to sendAndConfirmTransaction, if any, and the error
\* thrown.  o tells what the connection answers: the balance of the wallet,
\* how the oracle update instruction fares, the estimated fee, and whether
\* the transaction is confirmed.
sendPriceUpdate(k, token, price, o, t) ==
  IF o.balance < minWalletBalance
  THEN [ keeper |-> sendPriceUpdateThrown(k), submitted |-> Undefined,
         error |-> InsufficientBalanceError ]
  ELSE LET transaction == createPriceUpdateTransaction(token, price, o.instruction, t)
       IN IF o.fee > maxTransactionFee
          THEN [ keeper |-> sendPriceUpdateThrown(k), submitted |-> Undefined,
                 error |-> FeeTooHighError ]
          ELSE IF ~o.confirmed
          THEN [ keeper |-> sendPriceUpdateThrown(k), submitted |-> Some(transaction),
                 error |-> SendError ]
          ELSE [ keeper |-> sendPriceUpdateConfirmed(k, token, price, t),
                 submitted |-> Some(transaction), error |-> NoError ]

\* a processPriceUpdates call that has not begun
NotBegun ==
  [ pc |-> "none", origin |-> "", prices |-> <<>>, next |-> 0, updates |-> 0,
    sent |-> <<>>, delayed |-> FALSE ]

\* a processPriceUpdates call that has returned
Returned ==
  [ pc |-> "returned", origin |-> "", prices |-> <<>>, next |-> 0, updates |-> 0,
    sent |-> <<>>, delayed |-> FALSE ]

\* processPriceUpdates() up to its first await, fetchPrices(); origin tells
\* whether start() or a timer callback made the call
BeginCycle(origin) ==
  [ pc |-> "fetching", origin |-> origin, prices |-> <<>>, next |-> 0, updates |-> 0,
    sent |-> <<>>, delayed |-> FALSE ]

\* In a call's record, sent lists the tokens sendPriceUpdate was called for,
\* and delayed tells whether the delay between transactions has elapsed
\* since the last of these calls.

\* the calls of processPriceUpdates that have begun and not returned
InFlight == { c \in DOMAIN cycles : cycles[c].pc \notin {"none", "returned"} }

\* validation.minimumSources
minimumSources == 2

\* the price sources, in the order fetchPrices asks them
SourceNames == <<"okx", "binance", "coingecko">>

\* A quote is a JavaScript number: a value, or NaN.  A response is what one
\* source's fetch comes to: it throws (failed), or it resolves to a Map from
\* tokens to quotes, here the sequence of its entries in insertion order.

\* isNaN(price) ? 0 : price
QuoteValue(price) == IF price.nan THEN 0 ELSE price.value

\* if (!prices.has(token)) prices.set(token, []);
\* prices.get(token).push(datum)
RECURSIVE PushQuote(_, _, _)
PushQuote(prices, token, datum) ==
  IF prices = <<>> THEN << [token |-> token, priceData |-> <<datum>>] >>
  ELSE IF Head(prices).token = token
       THEN << [Head(prices) EXCEPT !.priceData = Append(@, datum)] >> \o Tail(prices)
       ELSE << Head(prices) >> \o PushQuote(Tail(prices), token, datum)

\* sourcePrices.forEach((price, token) => ...) of one source
RECURSIVE PushQuotes(_, _, _, _)
PushQuotes(prices, source, quotes, t) ==
  IF quotes = <<>> THEN prices
  ELSE PushQuotes(PushQuote(prices, Head(quotes).token,
                            [source |-> source, price |-> Head(quotes).price,
                             timestamp |-> t]),
                  source, Tail(quotes), t)

\* the prices Map of fetchPrices after the sources from the i-th on: a source
\* whose fetch throws is logged and skipped
RECURSIVE CollectQuotes(_, _, _, _)
CollectQuotes(prices, responses, i, t) ==
  IF i > Len(responses) THEN prices
  ELSE CollectQuotes(IF responses[i].failed THEN prices
                     ELSE PushQuotes(prices, SourceNames[i], responses[i].quotes, t),
                     responses, i + 1, t)

RECURSIVE SumQuotes(_)
SumQuotes(priceData) ==
  IF priceData = <<>> THEN 0
  ELSE QuoteValue(Head(priceData).price) + SumQuotes(Tail(priceData))

SourcesOf(priceData) == [i \in DOMAIN priceData |-> priceData[i].source]

\* the aggregated prices of fetchPrices: the simple average of each token's
\* quotes, kept when it is positive.  The quotes of the model are chosen so
\* that every average is a whole number.
RECURSIVE AggregatePrices(_, _)
AggregatePrices(prices, t) ==
  IF prices = <<>> THEN <<>>
  ELSE LET priceData == Head(prices).priceData
           avgPrice == SumQuotes(priceData) \div Len(priceData)
           rest == AggregatePrices(Tail(prices), t)
       IN IF Len(priceData) > 0 /\ avgPrice > 0
          THEN << [ token |-> Head(prices).token, price |-> avgPrice,
                    sources |-> SourcesOf(priceData),
                    dataPoints |-> Len(priceData), timestamp |-> t ] >> \o rest
          ELSE rest

\* fetchPrices letting the failure of a source fail the whole pass
fetchPrices_AllOrNothing(responses, t) ==
  IF \E i \in DOMAIN responses : responses[i].failed THEN <<>>
  ELSE AggregatePrices(CollectQuotes(<<>>, responses, 1, t), t)

\* keeper.fetchPrices(), given what the fetch of each source comes to
fetchPrices(responses, t) == AggregatePrices(CollectQuotes(<<>>, responses, 1, t), t)

----------------------------------------------------------------------------
(* PriceReader *)

\* the addresses read
Addresses == {"feedA", "feedB"}

\* reader.cacheTimeout
cacheTimeout == 5000

\* the key `${address}_history` of the cache
HistoryKey(address) == IF address = "feedA" THEN "feedA_history" ELSE "feedB_history"

\* the keys of the cache: the address stands for `${address}_current`
CacheKeys == Addresses \cup { HistoryKey(a) : a \in Addresses }

\* The cache maps `${address}_${type}` to {data, timestamp}; the model keeps
\* an entry per key, absent ones as undefined.
NewPriceReader ==
  [ cache |-> [key \in CacheKeys |-> Undefined],
    cacheTimeout |-> cacheTimeout,
    metrics |-> [ totalReads |-> 0, successfulReads |-> 0, failedReads |-> 0,
                  cacheHits |-> 0,
                  averageReadTime |-> [num |-> 0, den |-> 1],
                  lastReadTime |-> 0 ] ]

\* _getCachedData that never lets an entry expire
getCachedData_NoExpiry(r, key, t) ==
  IF IsDefined(r.cache[key])
  THEN [ data |-> Some(ValOf(r.cache[key]).data), reader |-> r ]
  ELSE [ data |-> Undefined, reader |-> r ]

\* reader._getCachedData(key, type) at Date.now() = t: the data, or null
\* (here undefined), and the reader afterwards, an expired entry deleted
getCachedData(r, key, t) ==
  LET cached == r.cache[key]
  IN IF IsDefined(cached) /\ (t - ValOf(cached).timestamp) < r.cacheTimeout
     THEN [ data |-> Some(ValOf(cached).data), reader |-> r ]
     ELSE IF IsDefined(cached)
     THEN [ data |-> Undefined, reader |-> [r EXCEPT !.cache[key] = Undefined] ]
     ELSE [ data |-> Undefined, reader |-> r ]

\* reader._setCachedData(key, type, data) at Date.now() = t
setCachedData(r, key, data, t) ==
  [r EXCEPT !.cache[key] = Some([data |-> data, timestamp |-> t])]

\* reader._updateMetrics(startTime) at Date.now() = t; the rolling average is
\* kept as a fraction
updateMetrics(r, startTime, t) ==
  LET readTime == t - startTime
      n == r.metrics.totalReads
      avg == r.metrics.averageReadTime
  IN [r EXCEPT !.metrics.lastReadTime = readTime,
               !.metrics.averageReadTime =
                  IF n = 1 THEN [num |-> readTime, den |-> 1]
                  ELSE [ num |-> avg.num * (n - 1) + readTime * avg.den,
                         den |-> avg.den * n ]]

\* reader.clearCache()
clearCache(r) == [r EXCEPT !.cache = [key \in CacheKeys |-> Undefined]]

----------------------------------------------------------------------------
(* PriceOracle *)

\* the calls of PublicKey.findProgramAddress a PriceOracle may await at once
MaxDeriving == 2

\* PublicKey.findProgramAddress(['price', tokenPair, authority.publicKey],
\* programId): the address derived from the seeds and the program, and with
\* it the bump; different seeds give different addresses
findProgramAddress(tokenPair, authority, programId) ==
  [seeds |-> <<"price", tokenPair, authority>>, programId |-> programId]

\* new PriceOracle(config) without config.oracleProgram
NewPriceOracle ==
  [ config |-> [oracleProgram |-> Undefined],
    priceAccounts |-> [tokenPair \in Pairs |-> Undefined],
    deriving |-> <<>> ]

\* In the oracle's record, deriving lists the getPriceAccount calls that
\* await findProgramAddress.

\* the account info getPriceAccount builds, stores and returns once
\* findProgramAddress has resolved
PriceAccountInfo(tokenPair, authority, programId) ==
  [ address |-> findProgramAddress(tokenPair, authority, programId),
    tokenPair |-> tokenPair,
    authority |-> authority ]

----------------------------------------------------------------------------
(* The operations on one account *)

\* what an operation leaves in result
Result(op, success, error, signer, input, history) ==
  [ op |-> op, success |-> success, error |-> error, signer |-> signer,
    input |-> input, history |-> history ]

NoInput == [none |-> TRUE]

\* the prices of the instruction data
CommandPrices == {0, 2}

Confidences == {95, 150}

Slots == {0, 5}

SourceLists == {<<>>, <<"okx">>}

\* the ages, in seconds, of the timestamps given to the protocol
Ages == {0, maxPriceAge + 1}

\* every instruction data of the model, at Date.now() = t
AllCommands(t) ==
  { [price |-> p, confidence |-> c, slot |-> s,
     timestamp |-> (t \div 1000) - g, sources |-> src] :
      p \in CommandPrices, c \in Confidences, s \in Slots, g \in Ages, src \in SourceLists }

\* the number of fields of an instruction data that validation refuses
Violations(cmd, t) ==
  (IF cmd.price <= 0 THEN 1 ELSE 0)
  + (IF cmd.confidence < minConfidence \/ cmd.confidence > maxConfidence THEN 1 ELSE 0)
  + (IF cmd.slot <= 0 THEN 1 ELSE 0)
  + (IF (t \div 1000) - cmd.timestamp > maxPriceAge THEN 1 ELSE 0)
  + (IF Len(cmd.sources) < minSources THEN 1 ELSE 0)

\* the instruction data given to processUpdatePriceInstruction: the valid
\* ones and those with one refused field
Commands(t) == { cmd \in AllCommands(t) : Violations(cmd, t) <= 1 }

\* the calls of processUpdatePriceInstruction: the keeper with every
\* instruction data, the other key with a valid one and with a price of 0
Calls(t) ==
  { <<k, cmd>> \in Keys \X Commands(t) :
      k = "keeper" \/ Violations(cmd, t) = 0 \/ cmd.price <= 0 }

\* confidence of a direct updatePrice call: 95 on the 0-100 scale
DirectConfidence == 95 * 100

\* the arguments given to initialize
InitArgs == {<<"SOL/USDC", "keeper">>, <<"BTC/USDT", "intruder">>}

\* no value was kept yet
NothingHeld == [op |-> "none", value |-> NoInput]

Init ==
  /\ account = NewAccount
  /\ now = 1000
  /\ recorded = <<>>
  /\ everRecorded = {}
  /\ firstAuthority = Undefined
  /\ inits = 0
  /\ updates = 0
  /\ result = Result("new", TRUE, NoError, "", NoInput, <<>>)
  /\ failures = 0
  /\ keeper = NewKeeper
  /\ timers = {}
  /\ cycles = [c \in 1..MaxCycles |-> NotBegun]
  /\ spawned = 0
  /\ reader = NewPriceReader
  /\ connection = [callCount |-> 0]
  /\ pending = <<>>
  /\ fetchedAt = [a \in Addresses |-> Undefined]
  /\ held = NothingHeld
  /\ oracle = NewPriceOracle

\* time passes
Tick ==
  /\ \E t \in Times : t > now /\ now' = t
  /\ UNCHANGED <<account, recorded, everRecorded, firstAuthority, inits, updates, result,
               failures, keeperVars, readerVars, otherVars>>

\* account.initialize(tokenPair, authority, oracleProgram)
Initialize ==
  \E tokenPair \in Pairs, authority \in Keys :
    /\ <<tokenPair, authority>> \in InitArgs
    /\ inits < MaxInits
    /\ inits' = inits + 1
    /\ account' = initialize(account, tokenPair, authority, OracleProgram, now)
    /\ recorded' = <<>>
    /\ firstAuthority' = IF IsDefined(firstAuthority) THEN firstAuthority ELSE Some(authority)
    /\ result' = Result("initialize", TRUE, NoError, authority,
                        [tokenPair |-> tokenPair], <<>>)
    /\ UNCHANGED <<now, everRecorded, updates, failures, keeperVars, readerVars, otherVars>>

\* the samples in the ring's log after an updatePrice that got as far as
\* addToHistory
Recorded(a, priceData, t) ==
  IF a.isInitialized THEN Append(recorded, HistoryEntry(priceData, t)) ELSE recorded

EverRecorded(a, priceData) ==
  IF a.isInitialized /\ IsDefined(priceData.price)
  THEN everRecorded \cup {ValOf(priceData.price)}
  ELSE everRecorded

\* account.updatePrice(priceData), called on the storage entity directly:
\* what the call does to the account
UpdatePriceCall ==
  \E price \in Prices :
    LET priceData == PriceDataObject(price, DirectConfidence, <<"okx">>, Undefined)
        upd == updatePrice(account, priceData, now)
    IN /\ updates < MaxUpdates
       /\ account' = upd.account
       /\ recorded' = Recorded(account, priceData, now)
       /\ everRecorded' = EverRecorded(account, priceData)
       /\ updates' = IF account.isInitialized THEN updates + 1 ELSE updates
       /\ result' = Result("updatePrice", upd.error = NoError, upd.error, "",
                           [price |-> price], <<>>)
       /\ UNCHANGED <<now, firstAuthority, inits, keeperVars, readerVars, otherVars>>

\* the confidences given to a direct updatePrice, on the storage entity's
\* 0-100 scale: 95 as in the tests, and 150
DirectConfidences == {95 * 100, 150 * 100}

\* account.updatePrice(priceData) with any confidence
UpdatePriceConfidence ==
  \E confidence \in DirectConfidences :
    LET priceData == PriceDataObject(2, confidence, <<"okx">>, Undefined)
        upd == updatePrice(account, priceData, now)
    IN /\ updates < MaxUpdates
       /\ account' = upd.account
       /\ recorded' = Recorded(account, priceData, now)
       /\ everRecorded' = EverRecorded(account, priceData)
       /\ updates' = IF account.isInitialized THEN updates + 1 ELSE updates
       /\ result' = Result("updatePrice", upd.error = NoError, upd.error, "",
                           [price |-> 2, confidence |-> confidence], <<>>)
       /\ UNCHANGED <<now, firstAuthority, inits, failures, keeperVars, readerVars, otherVars>>

\* account.updatePrice(priceData), called on the storage entity directly
UpdatePrice == UpdatePriceCall /\ UNCHANGED failures

\* instruction.processUpdatePriceInstruction({account, authority, instructionData}):
\* what the call does to the account
ProcessUpdatePriceInstructionCall ==
  \E authority \in Keys, instructionData \in Commands(now) :
    LET r == processUpdatePriceInstruction(account, authority, instructionData, now)
        reached == /\ IsDefined(account.authority) /\ ValOf(account.authority) = authority
                   /\ account.isInitialized
                   /\ validateInstructionParams(ParamsOf(instructionData, authority), now) = NoError
        priceData == PriceDataDecimal(instructionData.price)
    IN /\ updates < MaxUpdates
       /\ <<authority, instructionData>> \in Calls(now)
       /\ account' = r.account
       /\ recorded' = IF reached THEN Recorded(account, priceData, now) ELSE recorded
       /\ everRecorded' = IF reached THEN EverRecorded(account, priceData) ELSE everRecorded
       /\ updates' = IF reached THEN updates + 1 ELSE updates
       /\ result' = Result("processUpdatePriceInstruction", r.success, r.error,
                           authority, instructionData, <<>>)
       /\ UNCHANGED <<now, firstAuthority, inits, keeperVars, readerVars, otherVars>>

\* instruction.processUpdatePriceInstruction({account, authority, instructionData})
ProcessUpdatePriceInstruction == ProcessUpdatePriceInstructionCall /\ UNCHANGED failures

\* the limits given to getPriceHistory: none, some and all of the ring
Limits == {0, 1, maxEntries}

\* account.getPriceHistory(limit)
GetPriceHistory ==
  \E limit \in Limits :
    /\ result' = Result("getPriceHistory", TRUE, NoError, "",
                        [limit |-> limit], getPriceHistory(account, limit))
    /\ UNCHANGED <<account, now, recorded, everRecorded, firstAuthority, inits, updates,
                  failures, keeperVars, readerVars, otherVars>>

\* account.getCurrentPrice()
GetCurrentPrice ==
  /\ result' = Result("getCurrentPrice", TRUE, NoError, "",
                      getCurrentPrice(account, now), <<>>)
  /\ UNCHANGED <<account, now, recorded, everRecorded, firstAuthority, inits, updates,
                  failures, keeperVars, readerVars, otherVars>>

\* account.getStatistics()
GetStatistics ==
  /\ result' = Result("getStatistics", TRUE, NoError, "",
                      getStatistics(account, now), <<>>)
  /\ UNCHANGED <<account, now, recorded, everRecorded, firstAuthority, inits, updates,
                  failures, keeperVars, readerVars, otherVars>>

\* what a kept result of a query reads as once the account is a.  The object
\* getStatistics returns has statistics: this.statistics and performance:
\* this.performance, the account's own objects, so these two properties read
\* as the account's objects are now; current is a new object.  The objects
\* getCurrentPrice and getPriceHistory return are new ones, over Decimals
\* and samples the account never writes to.
ReadKept(h, a) ==
  IF h.op = "getStatistics"
  THEN [h.value EXCEPT !.statistics = a.statistics, !.performance = a.performance]
  ELSE h.value

\* const kept = account.getCurrentPrice(), the first value a caller keeps
KeepCurrentPrice ==
  /\ held.op = "none"
  /\ held' = [op |-> "getCurrentPrice", value |-> getCurrentPrice(account, now)]
  /\ result' = Result("getCurrentPrice", TRUE, NoError, "",
                      getCurrentPrice(account, now), <<>>)
  /\ UNCHANGED <<account, now, recorded, everRecorded, firstAuthority, inits, updates,
                  failures, keeperVars, readerVars, oracle>>

\* const kept = account.getPriceHistory(limit)
KeepPriceHistory ==
  \E limit \in Limits :
    /\ held.op = "none"
    /\ held' = [op |-> "getPriceHistory", value |-> getPriceHistory(account, limit)]
    /\ result' = Result("getPriceHistory", TRUE, NoError, "",
                        [limit |-> limit], getPriceHistory(account, limit))
    /\ UNCHANGED <<account, now, recorded, everRecorded, firstAuthority, inits, updates,
                  failures, keeperVars, readerVars, oracle>>

\* const kept = account.getStatistics()
KeepStatistics ==
  /\ held.op = "none"
  /\ held' = [op |-> "getStatistics", value |-> getStatistics(account, now)]
  /\ result' = Result("getStatistics", TRUE, NoError, "",
                      getStatistics(account, now), <<>>)
  /\ UNCHANGED <<account, now, recorded, everRecorded, firstAuthority, inits, updates,
                  failures, keeperVars, readerVars, oracle>>

\* every params object given to validateInstructionParams alone: the
\* account reference and the authority may be missing, and any number of
\* fields may be refused at once
AllParams(t) ==
  { [ price |-> cmd.price, confidence |-> cmd.confidence, slot |-> cmd.slot,
      timestamp |-> cmd.timestamp, sources |-> cmd.sources,
      authority |-> auth, priceFeedAccount |-> acct ] :
      cmd \in AllCommands(t),
      auth \in {Undefined, Some("keeper")},
      acct \in {Undefined, Some(OracleProgram)} }

\* instruction.validateInstructionParams(params)
ValidateInstructionParams ==
  \E params \in AllParams(now) :
    LET err == validateInstructionParams(params, now)
    IN /\ result' = Result("validateInstructionParams", err = NoError, err, "",
                           params, <<>>)
       /\ UNCHANGED <<account, now, recorded, everRecorded, firstAuthority, inits, updates,
                  failures, keeperVars, readerVars, otherVars>>

Next ==
  \/ Tick
  \/ Initialize
  \/ UpdatePrice
  \/ ProcessUpdatePriceInstruction
  \/ GetPriceHistory
  \/ GetCurrentPrice
  \/ GetStatistics

Spec == Init /\ [][Next]_vars

\* the updates of the storage entity, without its queries
NextUpdates ==
  \/ Tick
  \/ Initialize
  \/ UpdatePrice
  \/ ProcessUpdatePriceInstruction

SpecUpdates == Init /\ [][NextUpdates]_vars

\* the updates of the storage entity and a caller that keeps what a query
\* returned to it before them
NextKept ==
  \/ Tick
  \/ Initialize
  \/ UpdatePrice
  \/ KeepCurrentPrice
  \/ KeepPriceHistory
  \/ KeepStatistics

SpecKept == Init /\ [][NextKept]_vars

\* the times of updates more than seven days, and then more than a day,
\* after the first ones
FarTimes == {1001 + SevenDaysMs + 1, 1001 + SevenDaysMs + 1 + OneDayMs + 1}

\* days pass
TickFar ==
  /\ \E t \in FarTimes : t > now /\ now' = t
  /\ UNCHANGED <<account, recorded, everRecorded, firstAuthority, inits, updates, result,
                 failures, keeperVars, readerVars, otherVars>>

\* the updates of the storage entity over days
NextStatistics ==
  \/ Tick
  \/ TickFar
  \/ Initialize
  \/ UpdatePrice
  \/ ProcessUpdatePriceInstruction

SpecStatistics == Init /\ [][NextStatistics]_vars

\* the validation of the protocol alone, on every params object
NextValidate ==
  \/ Tick
  \/ ValidateInstructionParams

SpecValidate == Init /\ [][NextValidate]_vars

\* the version fields of the data given to deserialize: the version of the
\* schema and a later one
Versions == {1, 2}

\* PriceFeedAccount.deserialize(account.serialize())
SerializeDeserialize ==
  /\ result' = Result("serialize/deserialize", TRUE, NoError, "",
                      [data |-> serialize(account)], <<>>)
  /\ UNCHANGED <<account, now, recorded, everRecorded, firstAuthority, inits, updates,
                  failures, keeperVars, readerVars, otherVars>>

\* PriceFeedAccount.deserialize(data) of account data with any version
\* field; it returns an account whatever the data holds
Deserialize ==
  \E version \in Versions :
    LET data == [serialize(account) EXCEPT !.version = version]
    IN /\ result' = Result("deserialize", TRUE, NoError, "",
                           [data |-> data, account |-> Some(deserialize(data))], <<>>)
       /\ UNCHANGED <<account, now, recorded, everRecorded, firstAuthority, inits, updates,
                  failures, keeperVars, readerVars, otherVars>>

\* the account PriceReader._deserializePriceFeedAccount(data) builds at
\* Date.now() = t: the same one for every data
MockPriceFeed(t) ==
  [ NewAccount EXCEPT
      !.isInitialized = TRUE,
      !.version = 1,
      !.authority = Some("11111111111111111111111111111112"),
      !.createdAt = t - 86400000,
      !.lastUpdated = t - 60000,
      !.tokenPair = [pairId |-> "SOL/USDC"],
      !.currentPrice.price = Some(175),
      !.currentPrice.confidence = Some(95),
      !.currentPrice.sources = Some(<<"okx", "coingecko">>),
      !.history.entries =
         << Some([price |-> Some(175), timestamp |-> t - 60000,
                  sources |-> Some(<<"okx", "coingecko">>), confidence |-> Some(95),
                  slot |-> 12345]),
            Some([price |-> Some(175), timestamp |-> t - 120000,
                  sources |-> Some(<<"okx", "coingecko">>), confidence |-> Some(93),
                  slot |-> 12344]) >>,
      !.statistics.totalUpdates = 100 ]

\* reader._deserializePriceFeedAccount(data)
ReaderDeserialize ==
  \E version \in Versions :
    LET data == [serialize(account) EXCEPT !.version = version]
    IN /\ result' = Result("_deserializePriceFeedAccount", TRUE, NoError, "",
                           [data |-> data, account |-> Some(MockPriceFeed(now))], <<>>)
       /\ UNCHANGED <<account, now, recorded, everRecorded, firstAuthority, inits, updates,
                  failures, keeperVars, readerVars, otherVars>>

\* the storage entity and the round trip through its serialized form
NextSerialize ==
  \/ Tick
  \/ Initialize
  \/ UpdatePrice
  \/ ProcessUpdatePriceInstruction
  \/ SerializeDeserialize

SpecSerialize == Init /\ [][NextSerialize]_vars

\* the storage entity and the decoding of account data of any version
NextDeserialize ==
  \/ Tick
  \/ Initialize
  \/ UpdatePrice
  \/ Deserialize
  \/ ReaderDeserialize

SpecDeserialize == Init /\ [][NextDeserialize]_vars

\* the failed updates of the initialized account, counted after a call of
\* updatePrice or processUpdatePriceInstruction (every instant of the
\* model's clock lies within one timeWindow)
FailureCounted ==
  failures' = IF account.isInitialized /\ ~result'.success
              THEN Min(failures + 1, errorThreshold)
              ELSE failures

\* account.updatePrice(priceData), its failures counted
UpdatePriceCounted == UpdatePriceCall /\ FailureCounted

\* instruction.processUpdatePriceInstruction(...), its failures counted
ProcessUpdatePriceInstructionCounted == ProcessUpdatePriceInstructionCall /\ FailureCounted

\* the storage entity under updates that fail
NextBreaker ==
  \/ Tick
  \/ Initialize
  \/ UpdatePriceCounted
  \/ ProcessUpdatePriceInstructionCounted

SpecBreaker == Init /\ [][NextBreaker]_vars

\* the storage entity under direct updates of any confidence and under the
\* protocol
NextConfidence ==
  \/ Tick
  \/ Initialize
  \/ UpdatePriceConfidence
  \/ ProcessUpdatePriceInstruction

SpecConfidence == Init /\ [][NextConfidence]_vars

\* the time from which a price recorded at the times of the model is stale
LateTime == 1001 + maximumAge + 1

\* time passes until the prices recorded so far are stale
TickLate ==
  /\ now < LateTime
  /\ now' = LateTime
  /\ UNCHANGED <<account, recorded, everRecorded, firstAuthority, inits, updates, result,
                 failures, keeperVars, readerVars, otherVars>>

\* account.currentPrice.confidence = 50, as the 'Validation' test does
SetLowConfidence ==
  /\ account.currentPrice.confidence # Some(50 * 100)
  /\ account' = [account EXCEPT !.currentPrice.confidence = Some(50 * 100)]
  /\ result' = Result("currentPrice.confidence=", TRUE, NoError, "", NoInput, <<>>)
  /\ UNCHANGED <<now, recorded, everRecorded, firstAuthority, inits, updates,
                 failures, keeperVars, readerVars, otherVars>>

\* account.validate()
Validate ==
  /\ result' = Result("validate", TRUE, NoError, "", validate(account, now), <<>>)
  /\ UNCHANGED <<account, now, recorded, everRecorded, firstAuthority, inits, updates,
                 failures, keeperVars, readerVars, otherVars>>

\* validate() among the writes to the account
NextAccountValidate ==
  \/ Tick
  \/ TickLate
  \/ Initialize
  \/ UpdatePrice
  \/ SetLowConfidence
  \/ Validate

SpecAccountValidate == Init /\ [][NextAccountValidate]_vars

\* the updates of a batch: the account of each pair, a price that is valid
\* or 0, a confidence that is valid or too high
BatchUpdates(t) ==
  { [ priceFeedAccount |-> Some(sym), symbol |-> sym, price |-> p, confidence |-> c,
      slot |-> 5, timestamp |-> t \div 1000, sources |-> <<"okx">> ] :
      sym \in {"BTC/USDT"}, p \in CommandPrices, c \in Confidences }

\* the batches of at most MaxBatch updates
Batches(t) == UNION { [1..n -> BatchUpdates(t)] : n \in 0..MaxBatch }

\* instruction.createBatchUpdateInstructions({priceUpdates, authority})
CreateBatchUpdateInstructions ==
  \E priceUpdates \in Batches(now) :
    /\ result' = Result("createBatchUpdateInstructions", TRUE, NoError, "keeper",
                        priceUpdates,
                        createBatchUpdateInstructions(priceUpdates, Some("keeper"), now))
    /\ UNCHANGED <<account, now, recorded, everRecorded, firstAuthority, inits, updates,
                   failures, keeperVars, readerVars, otherVars>>

NextBatch ==
  \/ Tick
  \/ CreateBatchUpdateInstructions

SpecBatch == Init /\ [][NextBatch]_vars

\* the prices of the sources given to calculateConfidence: quotes that
\* agree within 1%, within 5%, and quotes far apart
SourcePrices == {100, 101, 105, 150, 200}

\* the sources given to calculateConfidence
SourceQuotes ==
  UNION { [1..n -> { [price |-> p] : p \in SourcePrices }] : n \in 0..MaxSources }

\* factory.calculateConfidence(sources)
CalculateConfidence ==
  \E sources \in SourceQuotes :
    /\ result' = Result("calculateConfidence", TRUE, NoError, "",
                        [sources |-> sources, confidence |-> calculateConfidence(sources)],
                        <<>>)
    /\ UNCHANGED <<account, now, recorded, everRecorded, firstAuthority, inits, updates,
                   failures, keeperVars, readerVars, otherVars>>

NextCalculate ==
  \/ CalculateConfidence

SpecCalculate == Init /\ [][NextCalculate]_vars

\* the updates of the protocol, and the confidences the factory computes for
\* them
NextScale ==
  \/ Tick
  \/ Initialize
  \/ ProcessUpdatePriceInstruction
  \/ CalculateConfidence

SpecScale == Init /\ [][NextScale]_vars

----------------------------------------------------------------------------
(* The operations of the keeper *)

\* the variables of the account
accountVars == <<account, recorded, everRecorded, firstAuthority, inits, updates, failures>>

\* the aggregated prices fetchPrices() resolves to
KeeperPrices == {100, 105}

\* the maps fetchPrices() resolves to, in the order the loop visits them:
\* no price at all, or a price for each pair (the second pair's price does
\* not move)
FetchedPrices ==
  {<<>>} \cup
  { << [token |-> "SOL/USDC", price |-> p], [token |-> "BTC/USDT", price |-> 100] >> :
      p \in KeeperPrices }

\* processPriceUpdates call c returns to its caller.  start() awaits its
\* initial call and then installs the timer with setInterval(), whether or
\* not the keeper is still running; the timer is named after the call.
ReturnTo(k, cyc, c) ==
  IF cyc.origin = "start"
  THEN [ keeper |-> [k EXCEPT !.updateInterval = Some(c)],
         cycle |-> Returned, timers |-> timers \cup {c} ]
  ELSE [ keeper |-> k, cycle |-> Returned, timers |-> timers ]

\* the loop of processPriceUpdates after the token at cyc.next: the next
\* token, or the end of the cycle
AfterToken(k, cyc, c) ==
  IF cyc.next < Len(cyc.prices)
  THEN [ keeper |-> k, cycle |-> [cyc EXCEPT !.pc = "deciding", !.next = @ + 1],
         timers |-> timers ]
  ELSE ReturnTo([k EXCEPT !.stats.totalUpdates = @ + 1, !.updateCount = @ + 1], cyc, c)

\* keeper.start(), up to the first await of its initial processPriceUpdates()
Start ==
  /\ ~keeper.isRunning
  /\ spawned < MaxCycles
  /\ keeper' = [keeper EXCEPT !.isRunning = TRUE]
  /\ cycles' = [cycles EXCEPT ![spawned + 1] = BeginCycle("start")]
  /\ spawned' = spawned + 1
  /\ UNCHANGED <<timers, accountVars, readerVars, otherVars, now, result>>

\* the callback of a setInterval timer, up to the first await of its
\* processPriceUpdates()
TimerTick ==
  \E id \in timers :
    /\ keeper.isRunning
    /\ spawned < MaxCycles
    /\ cycles' = [cycles EXCEPT ![spawned + 1] = BeginCycle("timer")]
    /\ spawned' = spawned + 1
    /\ UNCHANGED <<keeper, timers, accountVars, readerVars, otherVars, now, result>>

\* processPriceUpdates: fetchPrices() resolves
FetchPrices ==
  \E c \in InFlight, fetched \in FetchedPrices :
    /\ cycles[c].pc = "fetching"
    /\ LET r == IF fetched = <<>>
                THEN ReturnTo(keeper, cycles[c], c)
                ELSE [ keeper |-> keeper,
                       cycle |-> [cycles[c] EXCEPT !.pc = "deciding",
                                                   !.prices = fetched, !.next = 1],
                       timers |-> timers ]
       IN /\ keeper' = r.keeper
          /\ cycles' = [cycles EXCEPT ![c] = r.cycle]
          /\ timers' = r.timers
    /\ UNCHANGED <<spawned, accountVars, readerVars, otherVars, now, result>>

\* the quotes of the sources: 60, 120 and NaN
Quotes == { [nan |-> FALSE, value |-> 60], [nan |-> FALSE, value |-> 120],
            [nan |-> TRUE, value |-> 0] }

\* what the fetch of one source comes to: it throws, or it resolves to a
\* quote for the first pair, or to a quote for each pair
SourceResponses ==
  { [failed |-> TRUE, quotes |-> <<>>] }
  \cup { [failed |-> FALSE, quotes |-> << [token |-> "SOL/USDC", price |-> q] >>] :
           q \in Quotes }
  \cup { [failed |-> FALSE,
          quotes |-> << [token |-> "BTC/USDT", price |-> [nan |-> FALSE, value |-> 60]],
                        [token |-> "SOL/USDC", price |-> [nan |-> FALSE, value |-> 120]] >>] }

\* what the fetches of the three sources come to
Responses == [DOMAIN SourceNames -> SourceResponses]

\* processPriceUpdates: fetchPrices() resolves, given what the fetch of each
\* source comes to
FetchPricesFromSources ==
  \E c \in InFlight, responses \in Responses :
    /\ cycles[c].pc = "fetching"
    /\ LET fetched == fetchPrices(responses, now)
           r == IF fetched = <<>>
                THEN ReturnTo(keeper, cycles[c], c)
                ELSE [ keeper |-> keeper,
                       cycle |-> [cycles[c] EXCEPT !.pc = "deciding",
                                                   !.prices = fetched, !.next = 1],
                       timers |-> timers ]
       IN /\ keeper' = r.keeper
          /\ cycles' = [cycles EXCEPT ![c] = r.cycle]
          /\ timers' = r.timers
          /\ result' = Result("fetchPrices", TRUE, NoError, "", responses, fetched)
    /\ UNCHANGED <<spawned, accountVars, readerVars, otherVars, now>>

\* processPriceUpdates: shouldUpdatePrice for the next token and, when it
\* says so, sendPriceUpdate up to its first await
DecideToken ==
  \E c \in InFlight :
    /\ cycles[c].pc = "deciding"
    /\ LET cyc == cycles[c]
           entry == cyc.prices[cyc.next]
           r == IF shouldUpdatePrice(keeper, entry.token, entry.price)
                THEN [ keeper |-> keeper,
                       cycle |-> [cyc EXCEPT !.pc = "sending",
                                             !.sent = Append(@, entry.token),
                                             !.delayed = FALSE],
                       timers |-> timers ]
                ELSE AfterToken(keeper, cyc, c)
       IN /\ keeper' = r.keeper
          /\ cycles' = [cycles EXCEPT ![c] = r.cycle]
          /\ timers' = r.timers
    /\ UNCHANGED <<spawned, accountVars, readerVars, otherVars, now, result>>

\* sendPriceUpdate(token, price) finishes: the transaction is confirmed, or
\* a step of the submission throws
SendPriceUpdate ==
  \E c \in InFlight, confirmed \in BOOLEAN :
    /\ cycles[c].pc = "sending"
    /\ LET cyc == cycles[c]
           entry == cyc.prices[cyc.next]
           sent == sendPriceUpdateConfirmed(keeper, entry.token, entry.price, now)
           failed == sendPriceUpdateThrown(keeper)
           pushed == [cyc EXCEPT !.updates = @ + 1]
           r == IF ~confirmed THEN AfterToken(failed, cyc, c)
                ELSE IF pushed.updates < Len(cyc.prices)
                     THEN [ keeper |-> sent, cycle |-> [pushed EXCEPT !.pc = "delaying"],
                            timers |-> timers ]
                     ELSE AfterToken(sent, pushed, c)
       IN /\ keeper' = r.keeper
          /\ cycles' = [cycles EXCEPT ![c] = r.cycle]
          /\ timers' = r.timers
    /\ UNCHANGED <<spawned, accountVars, readerVars, otherVars, now, result>>

\* what the connection answers during a sendPriceUpdate: a balance at or
\* just below minWalletBalance, an estimated fee at or just above
\* maxTransactionFee, the fate of the oracle update instruction and of the
\* transaction
SubmissionOutcomes ==
  [ balance : {minWalletBalance - 1, minWalletBalance},
    instruction : {"unconfigured", "built", "failed"},
    fee : {maxTransactionFee, maxTransactionFee + 1},
    confirmed : BOOLEAN ]

\* sendPriceUpdate(token, price) finishes, given what the connection answers
SendPriceUpdateChecked ==
  \E c \in InFlight, o \in SubmissionOutcomes :
    /\ cycles[c].pc = "sending"
    /\ LET cyc == cycles[c]
           entry == cyc.prices[cyc.next]
           sent == sendPriceUpdate(keeper, entry.token, entry.price, o, now)
           pushed == [cyc EXCEPT !.updates = @ + 1]
           r == IF sent.error # NoError THEN AfterToken(sent.keeper, cyc, c)
                ELSE IF pushed.updates < Len(cyc.prices)
                     THEN [ keeper |-> sent.keeper,
                            cycle |-> [pushed EXCEPT !.pc = "delaying"],
                            timers |-> timers ]
                     ELSE AfterToken(sent.keeper, pushed, c)
       IN /\ keeper' = r.keeper
          /\ cycles' = [cycles EXCEPT ![c] = r.cycle]
          /\ timers' = r.timers
          /\ result' = Result("sendPriceUpdate", sent.error = NoError, sent.error, "",
                              [ token |-> entry.token, price |-> entry.price,
                                answers |-> o, submitted |-> sent.submitted ], <<>>)
    /\ UNCHANGED <<spawned, accountVars, readerVars, otherVars, now>>

\* processPriceUpdates: the delay between two transactions is over
DelayElapsed ==
  \E c \in InFlight :
    /\ cycles[c].pc = "delaying"
    /\ LET r == AfterToken(keeper, [cycles[c] EXCEPT !.delayed = TRUE], c)
       IN /\ keeper' = r.keeper
          /\ cycles' = [cycles EXCEPT ![c] = r.cycle]
          /\ timers' = r.timers
    /\ UNCHANGED <<spawned, accountVars, readerVars, otherVars, now, result>>

\* keeper.stop()
Stop ==
  /\ keeper.isRunning
  /\ keeper' = [keeper EXCEPT !.isRunning = FALSE, !.updateInterval = Undefined]
  /\ timers' = IF IsDefined(keeper.updateInterval)
               THEN timers \ {ValOf(keeper.updateInterval)}
               ELSE timers
  /\ UNCHANGED <<cycles, spawned, accountVars, readerVars, otherVars, now, result>>

\* the last prices the callers record by hand
LastPriceValues == {100, 10000}

\* keeper.lastPrices.set(token, {price, timestamp}), as the callers of
\* shouldUpdatePrice do to record a price
SetLastPrice ==
  \E token \in Pairs, price \in LastPriceValues :
    /\ keeper' = [keeper EXCEPT
                    !.lastPrices[token] = Some([price |-> price, timestamp |-> now])]
    /\ result' = Result("lastPrices.set", TRUE, NoError, "",
                        [token |-> token, price |-> price], <<>>)
    /\ UNCHANGED <<timers, cycles, spawned, accountVars, readerVars, otherVars, now>>

\* the prices asked about: the recorded ones and moves of 0.01%, 1% and 5%
\* either way
AskedPrices == {95, 99, 100, 101, 105, 9500, 9999, 10000, 10001, 10500}

\* keeper.shouldUpdatePrice(token, price).  nth is 2 when the call before
\* it was the same call, 1 otherwise.
ShouldUpdatePrice ==
  \E token \in Pairs, price \in AskedPrices :
    LET again == /\ result.op = "shouldUpdatePrice"
                 /\ result.input.token = token
                 /\ result.input.price = price
                 /\ result.input.nth = 1
    IN /\ result' = Result("shouldUpdatePrice", TRUE, NoError, "",
                           [ token |-> token, price |-> price,
                             nth |-> IF again THEN 2 ELSE 1,
                             answer |-> shouldUpdatePrice(keeper, token, price) ],
                           <<>>)
       /\ UNCHANGED <<keeperVars, accountVars, readerVars, otherVars, now>>

\* last prices that are zero or negative, recorded by hand as Decimals
NonPositiveLastPrices == {0, -100}

\* keeper.lastPrices.set(token, {price, timestamp}) with a price that is
\* zero or negative
SetNonPositiveLastPrice ==
  \E token \in Pairs, price \in NonPositiveLastPrices :
    /\ keeper' = [keeper EXCEPT
                    !.lastPrices[token] = Some([price |-> price, timestamp |-> now])]
    /\ result' = Result("lastPrices.set", TRUE, NoError, "",
                        [token |-> token, price |-> price], <<>>)
    /\ UNCHANGED <<timers, cycles, spawned, accountVars, readerVars, otherVars, now>>

\* the prices asked about after such a last price: the same price, moves of
\* 1% and 5% of it, zero, and a positive price
PricesAskedAfter == {-105, -101, -100, 0, 100}

\* keeper.shouldUpdatePrice(token, price) for these prices
ShouldUpdatePriceAfter ==
  \E token \in Pairs, price \in PricesAskedAfter :
    LET again == /\ result.op = "shouldUpdatePrice"
                 /\ result.input.token = token
                 /\ result.input.price = price
                 /\ result.input.nth = 1
    IN /\ result' = Result("shouldUpdatePrice", TRUE, NoError, "",
                           [ token |-> token, price |-> price,
                             nth |-> IF again THEN 2 ELSE 1,
                             answer |-> shouldUpdatePrice(keeper, token, price) ],
                           <<>>)
       /\ UNCHANGED <<keeperVars, accountVars, readerVars, otherVars, now>>

\* shouldUpdatePrice with last prices that are zero or negative
NextNonPositive ==
  \/ SetNonPositiveLastPrice
  \/ ShouldUpdatePriceAfter

SpecNonPositive == Init /\ [][NextNonPositive]_vars

\* shouldUpdatePrice under its callers
NextShouldUpdate ==
  \/ SetLastPrice
  \/ ShouldUpdatePrice

SpecShouldUpdate == Init /\ [][NextShouldUpdate]_vars

NextKeeper ==
  \/ Start
  \/ TimerTick
  \/ FetchPrices
  \/ DecideToken
  \/ SendPriceUpdate
  \/ DelayElapsed
  \/ Stop

SpecKeeper == Init /\ [][NextKeeper]_vars

\* the cycles of a keeper that is started and not stopped
NextCycles ==
  \/ Start
  \/ TimerTick
  \/ FetchPrices
  \/ DecideToken
  \/ SendPriceUpdate
  \/ DelayElapsed

SpecCycles == Init /\ [][NextCycles]_vars

\* the initial cycle of start(), with what the connection answers during
\* sendPriceUpdate
NextSend ==
  \/ Start
  \/ FetchPrices
  \/ DecideToken
  \/ SendPriceUpdateChecked
  \/ DelayElapsed

SpecSend == Init /\ [][NextSend]_vars

\* the initial cycle of start(), with the sources of fetchPrices
NextFetch ==
  \/ Start
  \/ FetchPricesFromSources
  \/ DecideToken
  \/ SendPriceUpdate
  \/ DelayElapsed

SpecFetch == Init /\ [][NextFetch]_vars

----------------------------------------------------------------------------
(* The operations of the reader *)

\* the times of the reads: just under cacheTimeout, cacheTimeout and twice
\* cacheTimeout after the first time of the model
ReaderTimes == {1000 + cacheTimeout - 1, 1000 + cacheTimeout, 1000 + 2 * cacheTimeout}

\* the slot of the account infos the connection resolves to
ReaderSlot == 12345

\* time passes between the steps of the reader
TickReader ==
  /\ \E t \in ReaderTimes : t > now /\ now' = t
  /\ UNCHANGED <<account, recorded, everRecorded, firstAuthority, inits, updates, result,
                 failures, keeperVars, readerVars, otherVars>>

\* the current price readCurrentPrice extracts at Date.now() = t from the
\* account info of the connection
CurrentPriceOf(slot, t) ==
  LET priceFeedData == MockPriceFeed(t)
  IN [ price |-> priceFeedData.currentPrice.price,
       confidence |-> priceFeedData.currentPrice.confidence,
       sources |-> priceFeedData.currentPrice.sources,
       lastUpdated |-> priceFeedData.lastUpdated,
       age |-> t - priceFeedData.lastUpdated,
       isStale |-> (t - priceFeedData.lastUpdated) > maximumAge,
       slot |-> slot,
       tokenPair |-> priceFeedData.tokenPair.pairId,
       authority |-> priceFeedData.authority ]

\* reader.readCurrentPrice(address, useCache) up to its return from the cache
\* or to its await of connection.getAccountInfo(address)
ReadCurrentPrice ==
  \E address \in Addresses, useCache \in BOOLEAN :
    /\ reader.metrics.totalReads < MaxReads
    /\ LET counted == [reader EXCEPT !.metrics.totalReads = @ + 1]
           cached == IF useCache THEN getCachedData(counted, address, now)
                     ELSE [data |-> Undefined, reader |-> counted]
       IN IF IsDefined(cached.data)
          THEN /\ reader' = [cached.reader EXCEPT !.metrics.cacheHits = @ + 1]
               /\ result' = Result("readCurrentPrice", TRUE, NoError, "",
                                   [ address |-> address, useCache |-> useCache,
                                     from |-> "cache", data |-> cached.data ], <<>>)
               /\ UNCHANGED <<connection, pending>>
          ELSE /\ reader' = cached.reader
               /\ connection' = [connection EXCEPT !.callCount = @ + 1]
               /\ pending' = Append(pending, [ op |-> "readCurrentPrice",
                                               address |-> address, useCache |-> useCache,
                                               startTime |-> now, limit |-> 0 ])
               /\ result' = Result("getAccountInfo", TRUE, NoError, "",
                                   [ address |-> address, useCache |-> useCache,
                                     from |-> "connection", data |-> Undefined ], <<>>)
    /\ UNCHANGED <<account, now, recorded, everRecorded, firstAuthority, inits, updates,
                   failures, keeperVars, otherVars, fetchedAt>>

\* the error readCurrentPrice throws
ReadError == [name |-> "Error", code |-> 0]

\* connection.getAccountInfo(address) resolves, to null or to an account
\* info, and readCurrentPrice goes on to its end
GetAccountInfoResolves ==
  \E i \in DOMAIN pending, found \in BOOLEAN :
    LET read == pending[i]
        currentPrice == CurrentPriceOf(ReaderSlot, now)
        rest == [j \in 1..(Len(pending) - 1) |-> IF j < i THEN pending[j] ELSE pending[j + 1]]
    IN /\ read.op = "readCurrentPrice"
       /\ pending' = rest
       /\ IF ~found
          THEN /\ reader' = updateMetrics([reader EXCEPT !.metrics.failedReads = @ + 1],
                                          read.startTime, now)
               /\ fetchedAt' = fetchedAt
               /\ result' = Result("readCurrentPrice", FALSE, ReadError, "",
                                   [ address |-> read.address, useCache |-> read.useCache,
                                     from |-> "connection", data |-> Undefined ], <<>>)
          ELSE /\ reader' = updateMetrics(
                              [ (IF read.useCache
                                 THEN setCachedData(reader, read.address, currentPrice, now)
                                 ELSE reader)
                                EXCEPT !.metrics.successfulReads = @ + 1 ],
                              read.startTime, now)
               /\ fetchedAt' = IF read.useCache
                             THEN [fetchedAt EXCEPT ![read.address] = Some(now)]
                             ELSE fetchedAt
               /\ result' = Result("readCurrentPrice", TRUE, NoError, "",
                                   [ address |-> read.address, useCache |-> read.useCache,
                                     from |-> "connection", data |-> Some(currentPrice) ],
                                   <<>>)
       /\ UNCHANGED <<account, now, recorded, everRecorded, firstAuthority, inits, updates,
                      failures, keeperVars, otherVars, connection>>

\* reader.clearCache()
ClearCache ==
  /\ reader' = clearCache(reader)
  /\ fetchedAt' = [a \in Addresses |-> Undefined]
  /\ result' = Result("clearCache", TRUE, NoError, "", NoInput, <<>>)
  /\ UNCHANGED <<account, now, recorded, everRecorded, firstAuthority, inits, updates,
                 failures, keeperVars, otherVars, connection, pending>>

\* the limits given to readPriceHistory: none, fewer than, all and more than
\* the entries of the account
HistoryLimits == {0, 1, 2, 10}

\* The Unix epoch on the clock of the model, whose origin lies later: the
\* timestamps of the account the reader deserializes, up to two minutes
\* before Date.now(), are positive numbers in the program.
UnixEpoch == 0 - SevenDaysMs

\* the history readPriceHistory(address, limit) extracts at Date.now() = t
\* from the account info of the connection: the entries that are not null
\* and have a timestamp, newest first, at most limit of them
HistoryOf(slot, limit, t) ==
  LET priceFeedData == MockPriceFeed(t)
      kept == SelectSeq(NonNull(priceFeedData.history.entries),
                        LAMBDA entry : entry.timestamp - UnixEpoch > 0)
      sorted == SortDesc(kept)
      sliced == SubSeq(sorted, 1, Min(limit, Len(sorted)))
  IN [ i \in 1..Len(sliced) |->
         [ price |-> sliced[i].price,
           confidence |-> sliced[i].confidence,
           timestamp |-> sliced[i].timestamp,
           sources |-> sliced[i].sources,
           age |-> t - sliced[i].timestamp,
           slot |-> IF sliced[i].slot # 0 THEN sliced[i].slot ELSE slot ] ]

\* reader.readPriceHistory(address, limit, useCache) up to its return from
\* the cache or to its await of connection.getAccountInfo(address)
ReadPriceHistory ==
  \E address \in Addresses, limit \in HistoryLimits, useCache \in BOOLEAN :
    /\ reader.metrics.totalReads < MaxReads
    /\ LET counted == [reader EXCEPT !.metrics.totalReads = @ + 1]
           cached == IF useCache THEN getCachedData(counted, HistoryKey(address), now)
                     ELSE [data |-> Undefined, reader |-> counted]
       IN IF IsDefined(cached.data)
          THEN /\ reader' = [cached.reader EXCEPT !.metrics.cacheHits = @ + 1]
               /\ result' = Result("readPriceHistory", TRUE, NoError, "",
                                   [ address |-> address, limit |-> limit,
                                     useCache |-> useCache, from |-> "cache" ],
                                   SubSeq(ValOf(cached.data), 1,
                                          Min(limit, Len(ValOf(cached.data)))))
               /\ UNCHANGED <<connection, pending>>
          ELSE /\ reader' = cached.reader
               /\ connection' = [connection EXCEPT !.callCount = @ + 1]
               /\ pending' = Append(pending, [ op |-> "readPriceHistory",
                                               address |-> address, useCache |-> useCache,
                                               startTime |-> now, limit |-> limit ])
               /\ result' = Result("getAccountInfo", TRUE, NoError, "",
                                   [ address |-> address, limit |-> limit,
                                     useCache |-> useCache, from |-> "connection" ], <<>>)
    /\ UNCHANGED <<account, now, recorded, everRecorded, firstAuthority, inits, updates,
                   failures, keeperVars, otherVars, fetchedAt>>

\* connection.getAccountInfo(address) resolves, to null or to an account
\* info, and readPriceHistory goes on to its end
GetAccountInfoResolvesHistory ==
  \E i \in DOMAIN pending, found \in BOOLEAN :
    LET read == pending[i]
        history == HistoryOf(ReaderSlot, read.limit, now)
        rest == [j \in 1..(Len(pending) - 1) |-> IF j < i THEN pending[j] ELSE pending[j + 1]]
    IN /\ read.op = "readPriceHistory"
       /\ pending' = rest
       /\ IF ~found
          THEN /\ reader' = updateMetrics([reader EXCEPT !.metrics.failedReads = @ + 1],
                                          read.startTime, now)
               /\ result' = Result("readPriceHistory", FALSE, ReadError, "",
                                   [ address |-> read.address, limit |-> read.limit,
                                     useCache |-> read.useCache, from |-> "connection" ],
                                   <<>>)
          ELSE /\ reader' = updateMetrics(
                              [ (IF read.useCache
                                 THEN setCachedData(reader, HistoryKey(read.address),
                                                    history, now)
                                 ELSE reader)
                                EXCEPT !.metrics.successfulReads = @ + 1 ],
                              read.startTime, now)
               /\ result' = Result("readPriceHistory", TRUE, NoError, "",
                                   [ address |-> read.address, limit |-> read.limit,
                                     useCache |-> read.useCache, from |-> "connection" ],
                                   history)
       /\ UNCHANGED <<account, now, recorded, everRecorded, firstAuthority, inits, updates,
                      failures, keeperVars, otherVars, connection, fetchedAt>>

NextReader ==
  \/ TickReader
  \/ ReadCurrentPrice
  \/ GetAccountInfoResolves
  \/ ClearCache

SpecReader == Init /\ [][NextReader]_vars

\* the reads of the history of an account that does not change
NextHistory ==
  \/ ReadPriceHistory
  \/ GetAccountInfoResolvesHistory

SpecHistory == Init /\ [][NextHistory]_vars

----------------------------------------------------------------------------
(* The operations of the oracle *)

\* oracle.initialize(oracleProgramId)
OracleInitialize ==
  /\ oracle' = [oracle EXCEPT !.config.oracleProgram = Some(OracleProgram)]
  /\ result' = Result("PriceOracle.initialize", TRUE, NoError, "",
                      [oracleProgramId |-> OracleProgram], <<>>)
  /\ UNCHANGED <<account, now, recorded, everRecorded, firstAuthority, inits, updates,
                 failures, keeperVars, readerVars, held>>

OracleNotInitializedError == [name |-> "Oracle program not initialized", code |-> 0]

\* oracle.getPriceAccount(tokenPair, authority) up to its return of a stored
\* account info, its throw, or its await of findProgramAddress
GetPriceAccount ==
  \E tokenPair \in Pairs, authority \in Keys :
    /\ IF IsDefined(oracle.priceAccounts[tokenPair])
       THEN /\ oracle' = oracle
            /\ result' = Result("getPriceAccount", TRUE, NoError, authority,
                                [ tokenPair |-> tokenPair,
                                  returned |-> oracle.priceAccounts[tokenPair] ], <<>>)
       ELSE IF ~IsDefined(oracle.config.oracleProgram)
       THEN /\ oracle' = oracle
            /\ result' = Result("getPriceAccount", FALSE, OracleNotInitializedError,
                                authority,
                                [tokenPair |-> tokenPair, returned |-> Undefined], <<>>)
       ELSE /\ Len(oracle.deriving) < MaxDeriving
            /\ oracle' = [oracle EXCEPT
                            !.deriving = Append(@, [ tokenPair |-> tokenPair,
                                                     authority |-> authority,
                                                     programId |->
                                                       ValOf(oracle.config.oracleProgram) ])]
            /\ result' = Result("findProgramAddress", TRUE, NoError, authority,
                                [tokenPair |-> tokenPair, returned |-> Undefined], <<>>)
    /\ UNCHANGED <<account, now, recorded, everRecorded, firstAuthority, inits, updates,
                   failures, keeperVars, readerVars, held>>

\* findProgramAddress resolves, and getPriceAccount stores the account info
\* under the token pair and returns it
FindProgramAddressResolves ==
  \E i \in DOMAIN oracle.deriving :
    LET call == oracle.deriving[i]
        accountInfo == PriceAccountInfo(call.tokenPair, call.authority, call.programId)
        rest == [ j \in 1..(Len(oracle.deriving) - 1) |->
                    IF j < i THEN oracle.deriving[j] ELSE oracle.deriving[j + 1] ]
    IN /\ oracle' = [oracle EXCEPT !.priceAccounts[call.tokenPair] = Some(accountInfo),
                                    !.deriving = rest]
       /\ result' = Result("getPriceAccount", TRUE, NoError, call.authority,
                           [ tokenPair |-> call.tokenPair,
                             returned |-> Some(accountInfo) ], <<>>)
       /\ UNCHANGED <<account, now, recorded, everRecorded, firstAuthority, inits, updates,
                      failures, keeperVars, readerVars, held>>

NextOracle ==
  \/ OracleInitialize
  \/ GetPriceAccount
  \/ FindProgramAddressResolves

SpecOracle == Init /\ [][NextOracle]_vars

----------------------------------------------------------------------------
(* Properties *)

ProcessOp == "processUpdatePriceInstruction"

\* the step is a call of op (time does not pass during a call)
IsCall(op) == result'.op = op /\ now' = now

\* the instruction data passes every check of validateInstructionParams
PassesValidation(instructionData, authority, t) ==
  validateInstructionParams(ParamsOf(instructionData, authority), t) = NoError

RECURSIVE Reverse(_)
Reverse(s) == IF s = <<>> THEN <<>> ELSE Append(Reverse(Tail(s)), Head(s))

\* the k samples recorded last, newest first
NewestFirst(k) == Reverse(SubSeq(recorded, Len(recorded) - k + 1, Len(recorded)))

\* the number of samples the ring retains
Retained == Min(Len(recorded), account.history.maxEntries)

\* every sample recorded since the ring was allocated came from an
\* updatePrice call with a positive price
OnlyPositiveSamples ==
  \A i \in 1..Len(recorded) :
    IsDefined(recorded[i].price) /\ ValOf(recorded[i].price) > 0

\* C1: on an initialized account, after updatePrice calls with positive
\* prices, getPriceHistory(limit) returns exactly min(limit, number of
\* retained samples) entries, and they are the samples recorded last,
\* newest first.
C1_HistoryNewestFirst ==
  (result.op = "getPriceHistory" /\ account.isInitialized /\ OnlyPositiveSamples)
    => /\ Len(result.history) = Min(result.input.limit, Retained)
       /\ result.history = NewestFirst(Min(result.input.limit, Retained))

\* C2: whenever processUpdatePriceInstruction returns a failure result, the
\* account is exactly as it was before the call.
C2_FailureLeavesAccountUnchanged ==
  [][(IsCall(ProcessOp) /\ ~result'.success) => account' = account]_vars

\* C3: when the signer is the account's authority, the account is
\* initialized and the command passes every validation check,
\* processUpdatePriceInstruction returns success, the current price is the
\* command's price, the sample is in the ring's next slot and the update
\* counter has increased by one.
C3_ValidCommandApplied ==
  [][(/\ IsCall(ProcessOp)
      /\ account.isInitialized
      /\ account.authority = Some(result'.signer)
      /\ PassesValidation(result'.input, result'.signer, now))
     => /\ result'.success
        /\ account'.currentPrice.price = Some(result'.input.price)
        /\ account'.history.entries[account.history.currentIndex + 1] # Undefined
        /\ ValOf(account'.history.entries[account.history.currentIndex + 1]).price
             = Some(result'.input.price)
        /\ account'.statistics.totalUpdates = account.statistics.totalUpdates + 1]_vars

\* C4: processUpdatePriceInstruction called with a signer that is not
\* account.authority returns a failure tagged UNAUTHORIZED, whatever the
\* instruction data, and leaves the account unchanged.
C4_OnlyAuthorityMutates ==
  [][(/\ IsCall(ProcessOp)
      /\ account.authority # Some(result'.signer))
     => /\ ~result'.success
        /\ result'.error = ProgramErr(UNAUTHORIZED)
        /\ account' = account]_vars

\* C4 witness: an initialized account has refused, as UNAUTHORIZED, a
\* command of another key that passes every validation check
C4_Witness ==
  /\ result.op = ProcessOp
  /\ account.isInitialized
  /\ IsDefined(account.authority)
  /\ ValOf(account.authority) # result.signer
  /\ PassesValidation(result.input, result.signer, now)
  /\ result.error = ProgramErr(UNAUTHORIZED)

\* C5: on an initialized account, an update whose price is <= 0 is rejected
\* with INVALID_PRICE and the account is unchanged, through updatePrice and
\* through processUpdatePriceInstruction called by the authority.
C5_NonPositivePriceRejected ==
  [][(/\ account.isInitialized
      /\ \/ IsCall("updatePrice")
         \/ IsCall(ProcessOp) /\ account.authority = Some(result'.signer)
      /\ result'.input.price <= 0)
     => /\ ~result'.success
        /\ result'.error = ProgramErr(INVALID_PRICE)
        /\ account' = account]_vars

\* the seven conditions of the validation in the order of the claim, each
\* with whether params violates it and the kind it is reported with
ValidationOrder(params, t) ==
  << [violated |-> ~IsDefined(params.priceFeedAccount), kind |-> ACCOUNT_NOT_INITIALIZED],
     [violated |-> ~IsDefined(params.authority), kind |-> UNAUTHORIZED],
     [violated |-> params.price <= 0, kind |-> INVALID_PRICE],
     [violated |-> params.confidence < minConfidence \/ params.confidence > maxConfidence,
      kind |-> INVALID_CONFIDENCE],
     [violated |-> params.slot <= 0, kind |-> INVALID_SLOT],
     [violated |-> (t \div 1000) - params.timestamp > maxPriceAge, kind |-> PRICE_TOO_OLD],
     [violated |-> Len(params.sources) < minSources, kind |-> INSUFFICIENT_SOURCES] >>

ViolatedConditions(params, t) ==
  { i \in 1..7 : ValidationOrder(params, t)[i].violated }

\* C6: validation reports the first violated condition in the order missing
\* account, missing authority, price <= 0, confidence out of range,
\* slot <= 0, stale timestamp, too few sources; nothing when none is
\* violated; and the seven kinds are pairwise distinct.
C6_FirstViolationReported ==
  result.op = "validateInstructionParams"
    => LET bad == ViolatedConditions(result.input, now)
       IN /\ (bad = {}) => (result.success /\ result.error = NoError)
          /\ (bad # {}) =>
               /\ ~result.success
               /\ result.error = ProgramErr(ValidationOrder(result.input, now)[MinOf(bad)].kind)
          /\ Cardinality({ ValidationOrder(result.input, now)[i].kind : i \in 1..7 }) = 7

\* C6 witness: a params object violating every one of the seven conditions
\* was reported as a missing account, and one violating the last five as a
\* price that is not positive
C6_Witness ==
  /\ result.op = "validateInstructionParams"
  /\ Cardinality(ViolatedConditions(result.input, now)) >= 5
  /\ IsDefined(result.input.priceFeedAccount)
  /\ IsDefined(result.input.authority)
  /\ result.error = ProgramErr(INVALID_PRICE)

\* C7: initialize on an account that is already initialized fails and
\* changes nothing of the account.
C7_SecondInitializeRejected ==
  [][(IsCall("initialize") /\ account.isInitialized)
     => (~result'.success /\ account' = account)]_vars

\* C8: authority is unset on an account never initialized, and otherwise
\* the authority given to the first initialize.
C8_AuthorityImmutable ==
  /\ ~IsDefined(firstAuthority) => (~IsDefined(account.authority) /\ ~account.isInitialized)
  /\ IsDefined(firstAuthority) => account.authority = firstAuthority

\* C9: on an account that is not initialized, every operation other than
\* initialize reports an error and leaves the account as it is.
C9_UninitializedRejectsAll ==
  [][(/\ ~account.isInitialized
      /\ \E op \in {"updatePrice", ProcessOp, "getCurrentPrice",
                    "getPriceHistory", "getStatistics"} : IsCall(op)
      /\ result' # result)
     => (~result'.success /\ account' = account)]_vars

\* C10: from its initialization on, allTimeHigh never decreases and
\* allTimeLow never increases, and after an update that succeeded
\* allTimeHigh is the largest and allTimeLow the smallest of all prices
\* recorded so far.
C10_AllTimeMonotone ==
  [][account.isInitialized
     => /\ account'.statistics.allTimeHigh >= account.statistics.allTimeHigh
        /\ account'.statistics.allTimeLow <= account.statistics.allTimeLow
        /\ (IsCall("updatePrice") /\ result'.success /\ result' # result)
             => /\ account'.statistics.allTimeHigh = MaxOf(everRecorded')
                /\ account'.statistics.allTimeLow = MinOf(everRecorded')]_vars

\* C12: after errorThreshold failed updates within timeWindow the circuit
\* breaker is open (isBroken), and while it is open (recoveryTime has not
\* elapsed on the model's clock) every update is rejected with
\* CircuitOpenError and leaves the account unchanged.
C12_CircuitBreakerOpens ==
  /\ [](failures >= errorThreshold => account.validation.circuitBreaker.isBroken)
  /\ [][(failures >= errorThreshold
          /\ (IsCall("updatePrice") \/ IsCall(ProcessOp))
          /\ result' # result)
         => /\ ~result'.success
            /\ result'.error.name = "CircuitOpenError"
            /\ account' = account]_vars

\* the closed confidence range of the storage entity, on its 0-100 scale
ConfidenceInRange(c) == IsDefined(c) /\ ValOf(c) >= 0 /\ ValOf(c) <= 100 * 100

\* C11: once an update has succeeded, the confidence of the current price
\* and of every sample of the history is set and lies in the closed range
\* of the storage entity, whichever path wrote it.
C11_ConfidenceInRange ==
  account.statistics.totalUpdates >= 1
    => /\ ConfidenceInRange(account.currentPrice.confidence)
       /\ \A i \in 1..Len(account.history.entries) :
            IsDefined(account.history.entries[i])
              => ConfidenceInRange(ValOf(account.history.entries[i]).confidence)

\* the step before the state was a round trip through the serialized form
RoundTripped == result.op = "serialize/deserialize"

\* C13: for every reachable account x, serialize(deserialize(serialize(x)))
\* is identical to serialize(x).
C13_SerializeFixedPoint ==
  RoundTripped
    => /\ result.input.data = serialize(account)
       /\ serialize(deserialize(result.input.data)) = result.input.data

\* a round trip of an account that holds prices, a negative price change
\* and an authority
C13_Witness ==
  /\ RoundTripped
  /\ account.statistics.totalUpdates >= 2
  /\ account.statistics.change24h < 0
  /\ result.input.data.statistics.change24h = <<"-", "1">>
  /\ IsDefined(result.input.data.authority)
  /\ deserialize(result.input.data).statistics.change24h = -1

\* C14: y = deserialize(serialize(x)) is observationally equal to x: same
\* creation time, same history, same ring index and capacity, and the same
\* update applied to x and to y gives the same result.
C14_RoundTripExact ==
  RoundTripped
    => LET y == deserialize(result.input.data)
           priceData == PriceDataObject(2, DirectConfidence, <<"okx">>, Undefined)
       IN /\ y.createdAt = account.createdAt
          /\ getPriceHistory(y, maxEntries) = getPriceHistory(account, maxEntries)
          /\ y.history.currentIndex = account.history.currentIndex
          /\ y.history.maxEntries = account.history.maxEntries
          /\ updatePrice(y, priceData, now).error
               = updatePrice(account, priceData, now).error
          /\ getPriceHistory(updatePrice(y, priceData, now).account, maxEntries)
               = getPriceHistory(updatePrice(account, priceData, now).account, maxEntries)

\* C15: decoding account data whose version is not the supported one fails
\* with UnsupportedVersion and produces no account, in
\* PriceFeedAccount.deserialize and in the reader alike.
C15_UnsupportedVersionRejected ==
  (/\ result.op \in {"deserialize", "_deserializePriceFeedAccount"}
   /\ result.input.data.version # NewAccount.version)
    => /\ ~result.success
       /\ result.error.name = "UnsupportedVersion"
       /\ ~IsDefined(result.input.account)

\* the last call was shouldUpdatePrice
Asked == result.op = "shouldUpdatePrice"

\* C16: for a pair with no recorded price, shouldUpdatePrice(pair, p) is
\* true, and the same call made again right after it is false.
C16_FirstTrueThenFalse ==
  (Asked /\ ~IsDefined(keeper.lastPrices[result.input.token]))
    => /\ result.input.nth = 1 => result.input.answer
       /\ result.input.nth = 2 => ~result.input.answer

\* the moves of the price checked for symmetry
Moves == {0, 1, 99, 100, 101, 500}

\* the answer of shouldUpdatePrice is the threshold rule, the same for a
\* move up and the same move down
ThresholdRule ==
  /\ Asked /\ IsDefined(keeper.lastPrices[result.input.token])
       => LET L == ValOf(keeper.lastPrices[result.input.token]).price
              P == result.input.price
          IN result.input.answer
               <=> (IF P >= L THEN (P - L) * 100 >= L ELSE (L - P) * 100 >= L)
  /\ \A token \in Pairs :
       IsDefined(keeper.lastPrices[token])
         => LET L == ValOf(keeper.lastPrices[token]).price
            IN /\ \A d \in Moves :
                    d < L => shouldUpdatePrice(keeper, token, L + d)
                               = shouldUpdatePrice(keeper, token, L - d)
               /\ ~shouldUpdatePrice(keeper, token, L + (L \div 10000))
               /\ shouldUpdatePrice(keeper, token, L + (L \div 20))
               /\ shouldUpdatePrice(keeper, token, L - (L \div 20))

Begins(c) == cycles[c].pc = "none" /\ cycles'[c].pc # "none"

\* C18: at most one processPriceUpdates call is executing at any time: a
\* timer tick never begins one while another one, begun by an earlier tick
\* or by start(), has not returned.
C18_NoOverlappingCycles ==
  [][\A c \in DOMAIN cycles :
       (Begins(c) /\ cycles'[c].origin = "timer")
         => InFlight = {} /\ Cardinality(InFlight') <= 1]_vars

\* the step is keeper.stop() taking effect
Stops == keeper.isRunning /\ ~keeper'.isRunning

\* C19: stop() lets a cycle in flight run on, halts the timer only after
\* that cycle has returned - so the timer is halted once the keeper is
\* stopped and no cycle is in flight - and no cycle begins while the keeper
\* is stopped.
C19_StopIsGraceful ==
  /\ [][Stops => cycles' = cycles /\ (InFlight # {} => timers' = timers)]_vars
  /\ [][\A c \in DOMAIN cycles : Begins(c) => keeper'.isRunning]_vars
  /\ [](~keeper.isRunning /\ InFlight = {} => timers = {})

\* the step is the failure of the submission that call c is waiting for
SubmissionFails(c) ==
  /\ cycles[c].pc = "sending"
  /\ cycles'[c] # cycles[c]
  /\ keeper'.stats.totalTransactions = keeper.stats.totalTransactions

\* no token twice in a sequence of tokens
NoRepeat(tokens) ==
  \A i, j \in 1..Len(tokens) : tokens[i] = tokens[j] => i = j

\* C20: when the submission for a pair fails, stats.failedUpdates and
\* errorCount are each incremented, the pair's last price is unchanged and
\* the cycle goes on to its next pair; no cycle submits a pair twice; and
\* the next cycle decides the pair as it would have been decided before.
C20_FailureCountedNoRetry ==
  /\ [][\A c \in DOMAIN cycles :
         SubmissionFails(c)
           => LET entry == cycles[c].prices[cycles[c].next]
              IN /\ keeper'.stats.failedUpdates = keeper.stats.failedUpdates + 1
                 /\ keeper'.errorCount = keeper.errorCount + 1
                 /\ keeper'.lastPrices = keeper.lastPrices
                 /\ cycles'[c].pc \in {"deciding", "returned"}
                 /\ cycles'[c].pc = "deciding" => cycles'[c].next = cycles[c].next + 1
                 /\ cycles'[c].sent = IF cycles'[c].pc = "returned" THEN <<>>
                                      ELSE cycles[c].sent
                 /\ shouldUpdatePrice(keeper', entry.token, entry.price)
                      = shouldUpdatePrice(keeper, entry.token, entry.price)]_vars
  /\ [](\A c \in DOMAIN cycles : NoRepeat(cycles[c].sent))

\* both submissions of the first cycle failed, and the second cycle is
\* submitting the first pair again
C20_Witness ==
  /\ keeper.stats.failedUpdates = 2
  /\ keeper.errorCount = 2
  /\ keeper.stats.totalTransactions = 0
  /\ cycles[1].pc = "returned"
  /\ cycles[2].pc = "sending"
  /\ cycles[2].origin = "timer"
  /\ cycles[2].sent = <<"SOL/USDC">>
  /\ ~IsDefined(keeper.lastPrices["SOL/USDC"])

\* the step is call c calling sendPriceUpdate
Submits(c) == cycles[c].pc = "deciding" /\ cycles'[c].pc = "sending"

\* C21: within one cycle, a submission attempt that follows another one
\* starts only after the delay between transactions (1000 ms) has elapsed
\* since that attempt.
C21_DelayBetweenSubmissions ==
  [][\A c \in DOMAIN cycles :
       (Submits(c) /\ cycles[c].sent # <<>>) => cycles[c].delayed]_vars

\* the batch of a createBatchUpdateInstructions call and the value returned
BatchCall == result.op = "createBatchUpdateInstructions"

\* the updates of a batch whose instruction can be created
ValidUpdates(priceUpdates) ==
  { i \in DOMAIN priceUpdates :
      priceUpdates[i].price > 0
      /\ priceUpdates[i].confidence >= minConfidence
      /\ priceUpdates[i].confidence <= maxConfidence }

\* the value returned holds an instruction for every valid update of the
\* batch, and no other
ValidOnesBuilt ==
  BatchCall =>
    /\ Len(result.history) = Cardinality(ValidUpdates(result.input))
    /\ \A j \in DOMAIN result.history :
         /\ result.history[j].programId = ProgramId
         /\ result.history[j].data.price > 0

\* C22: createBatchUpdateInstructions builds an instruction for every valid
\* update of the batch, and the value the caller receives has one entry for
\* each update of the batch, the refused ones included.
C22_BatchReportsEveryCommand ==
  BatchCall =>
    /\ Len(result.history) = Cardinality(ValidUpdates(result.input))
    /\ Len(result.history) = Len(result.input)

\* C23: no aggregated price is produced from fewer than minimumSources
\* quotes: every aggregate a cycle goes through, and so every aggregate it
\* submits, was built from at least minimumSources quotes.
C23_MinimumSourcesEnforced ==
  \A c \in DOMAIN cycles :
    \A i \in DOMAIN cycles[c].prices :
      cycles[c].prices[i].dataPoints >= minimumSources

\* the value a fetchPrices call resolved to, and the responses it was given
FetchCall == result.op = "fetchPrices"

\* the sources that answered with a quote for token, in the order asked
RECURSIVE Answered(_, _, _)
Answered(responses, token, i) ==
  IF i > Len(responses) THEN <<>>
  ELSE (IF ~responses[i].failed
           /\ \E j \in DOMAIN responses[i].quotes : responses[i].quotes[j].token = token
        THEN <<SourceNames[i]>> ELSE <<>>)
       \o Answered(responses, token, i + 1)

\* the quote of source i for token
QuoteOf(responses, token, i) ==
  LET j == CHOOSE j \in DOMAIN responses[i].quotes : responses[i].quotes[j].token = token
  IN responses[i].quotes[j].price

\* the sum of the quotes for token of the sources that answered, NaN as 0
RECURSIVE AnsweredSum(_, _, _)
AnsweredSum(responses, token, i) ==
  IF i > Len(responses) THEN 0
  ELSE (IF ~responses[i].failed
           /\ \E j \in DOMAIN responses[i].quotes : responses[i].quotes[j].token = token
        THEN QuoteValue(QuoteOf(responses, token, i)) ELSE 0)
       + AnsweredSum(responses, token, i + 1)

\* the aggregates are built from exactly the sources that answered: every
\* pair with a positive quote from a source that answered has one aggregate,
\* each aggregate lists the sources that answered for its pair and is their
\* average, and when every source failed there is no aggregate
BuiltFromAnswers ==
  FetchCall =>
    LET responses == result.input
        fetched == result.history
    IN /\ \A token \in Pairs :
            AnsweredSum(responses, token, 1) > 0
              => Cardinality({i \in DOMAIN fetched : fetched[i].token = token}) = 1
       /\ \A i \in DOMAIN fetched :
            /\ fetched[i].sources = Answered(responses, fetched[i].token, 1)
            /\ fetched[i].dataPoints = Len(fetched[i].sources)
            /\ fetched[i].dataPoints > 0
            /\ fetched[i].price * fetched[i].dataPoints
                 = AnsweredSum(responses, fetched[i].token, 1)
       /\ (\A i \in DOMAIN responses : responses[i].failed) => fetched = <<>>

\* the step is fetchPrices resolving in call c
Fetches(c) == cycles[c].pc = "fetching" /\ cycles'[c].pc # "fetching"

\* C25: a source that fails does not fail fetchPrices: the aggregates are
\* built from exactly the sources that answered and list them; when the
\* result is empty the cycle returns at once, having submitted nothing, and
\* no last price is recorded.
C25_PartialResponsesTolerated ==
  /\ []BuiltFromAnswers
  /\ [][\A c \in DOMAIN cycles :
          (Fetches(c) /\ result'.history = <<>>)
            => /\ cycles[c].sent = <<>>
               /\ cycles'[c].pc = "returned"
               /\ keeper'.lastPrices = keeper.lastPrices
               /\ keeper'.stats = keeper.stats]_vars

\* fetchPrices resolved to an aggregate although a source had failed
C25_Witness ==
  /\ FetchCall
  /\ \E i \in DOMAIN result.input : result.input[i].failed
  /\ \E i \in DOMAIN result.history : Len(result.history[i].sources) = 2

\* fetchPrices resolved to nothing since every source had failed, and the
\* cycle has returned
C25_WitnessAllFailed ==
  /\ FetchCall
  /\ \A i \in DOMAIN result.input : result.input[i].failed
  /\ cycles[1].pc = "returned"

\* the result holds a calculateConfidence call
ConfidenceCall(r) == r.op = "calculateConfidence"

\* the mean absolute relative deviation of the prices, as the fraction
\* (sum of |p - mean| / |mean|) / n, for a mean that is not 0
Dispersion(sources) ==
  LET n == Len(sources)
      total == SumPrices(sources)
  IN Fraction(SumDistances(sources, n, total), Abs(total) * n)

\* a <= b for fractions
FractionLeq(a, b) == a.num * b.den <= b.num * a.den

\* clamp(1 - 10 * d, 0.1, 0.95) for a dispersion d
ClampedConfidence(d) ==
  LET raw == Fraction(d.den - 10 * d.num, d.den)
  IN IF FractionLeq(raw, ConfidenceFloor) THEN ConfidenceFloor
     ELSE IF FractionLeq(ConfidenceCeiling, raw) THEN ConfidenceCeiling
     ELSE raw

\* two fractions are the same number
SameNumber(a, b) == ~a.nan /\ ~b.nan /\ a.num * b.den = b.num * a.den

\* all the prices are the same
Identical(sources) == \A i, j \in DOMAIN sources : sources[i].price = sources[j].price

\* the relative deviation of the prices is at least 9% on average
WidelyDivergent(sources) ==
  FractionLeq(Fraction(9, 100), Dispersion(sources))

\* the confidence is 0 for no source, 0.5 for one, and the clamped function
\* of the dispersion for more
ConfidenceRule ==
  ConfidenceCall(result) =>
    LET sources == result.input.sources
        confidence == result.input.confidence
    IN /\ Len(sources) = 0 => SameNumber(confidence, Fraction(0, 1))
       /\ Len(sources) = 1 => SameNumber(confidence, Fraction(1, 2))
       /\ Len(sources) >= 2 =>
            /\ SameNumber(confidence, ClampedConfidence(Dispersion(sources)))
            /\ Identical(sources) => SameNumber(confidence, ConfidenceCeiling)
            /\ WidelyDivergent(sources) => SameNumber(confidence, ConfidenceFloor)

\* C24: calculateConfidence gives 0 for no source, 0.5 for one source and
\* clamp(1 - 10 * dispersion, 0.1, 0.95) for two or more: the ceiling for
\* identical prices, the floor for widely divergent ones; and of two calls
\* with two or more sources, the one with the larger dispersion never gets
\* the larger confidence.
C24_ConfidenceFromDispersion ==
  /\ []ConfidenceRule
  /\ [][(/\ ConfidenceCall(result) /\ ConfidenceCall(result')
          /\ Len(result.input.sources) >= 2 /\ Len(result'.input.sources) >= 2
          /\ FractionLeq(Dispersion(result.input.sources),
                         Dispersion(result'.input.sources)))
         => FractionLeq(result'.input.confidence, result.input.confidence)]_vars

\* a confidence strictly between the floor and the ceiling was calculated
\* from three sources
C24_Witness ==
  /\ ConfidenceCall(result)
  /\ Len(result.input.sources) = 3
  /\ FractionLt(ConfidenceFloor, result.input.confidence)
  /\ FractionLt(result.input.confidence, ConfidenceCeiling)

\* the floor was calculated from prices far apart
C24_WitnessFloor ==
  /\ ConfidenceCall(result)
  /\ Len(result.input.sources) >= 2
  /\ WidelyDivergent(result.input.sources)
  /\ SameNumber(result.input.confidence, ConfidenceFloor)

\* the violations validate() is to report for the account
ViolatedOf(a, t) ==
  (IF ~a.isInitialized THEN {"Account not initialized"} ELSE {})
  \cup (IF a.authority = Undefined THEN {"No authority set"} ELSE {})
  \cup (IF a.tokenPair.pairId = "" THEN {"No token pair ID set"} ELSE {})
  \cup (IF ValOf(a.currentPrice.price) <= 0 THEN {"Invalid current price"} ELSE {})
  \cup (IF ValOf(a.currentPrice.confidence) < confidenceThreshold
         THEN {"Price confidence below threshold"} ELSE {})
  \cup (IF t - a.lastUpdated > maximumAge THEN {"Price data is stale"} ELSE {})

\* C26: validate() writes nothing to the account, reports every violated
\* condition (not initialized, no authority, no pair id, current price <= 0,
\* confidence below the floor, age above maximumAge) and no other, each
\* once, and isValid is true exactly when it reports none.
C26_ValidateCollectsAll ==
  [][IsCall("validate") =>
       /\ account' = account
       /\ { result'.input.errors[i] : i \in DOMAIN result'.input.errors }
            = ViolatedOf(account, now)
       /\ Len(result'.input.errors) = Cardinality(ViolatedOf(account, now))
       /\ result'.input.isValid <=> (result'.input.errors = <<>>)]_vars

\* validate() reported several violations on an initialized account
C26_Witness ==
  /\ result.op = "validate"
  /\ account.isInitialized
  /\ ~result.input.isValid
  /\ Len(result.input.errors) >= 2

\* validate() found nothing to report
C26_WitnessValid ==
  /\ result.op = "validate"
  /\ result.input.isValid

\* the step is a readCurrentPrice call of address with caching, up to its
\* return from the cache or its call of the connection
BeginsCachedRead(address) ==
  /\ reader'.metrics.totalReads = reader.metrics.totalReads + 1
  /\ result'.input.address = address
  /\ result'.input.useCache

\* a read with caching got the data of address from the connection, no
\* clearCache was called since, and less than cacheTimeout has passed
FreshlyRead(address) ==
  /\ IsDefined(fetchedAt[address])
  /\ now - ValOf(fetchedAt[address]) < cacheTimeout

\* the step is a read of address with caching getting its data from the
\* connection
CompletesCachedRead(address) ==
  /\ Len(pending') < Len(pending)
  /\ result'.op = "readCurrentPrice"
  /\ result'.success
  /\ result'.input.address = address
  /\ result'.input.useCache

\* C27: with caching, a read of an address less than cacheTimeout after a
\* read that got the address's data from the connection returns that data
\* from the cache and does not call the connection; a read at an age of
\* cacheTimeout or more, or after clearCache(), calls the connection, and
\* when it succeeds its data replaces the entry; clearCache() leaves the
\* cache empty.
C27_CacheServesFreshReads ==
  [][/\ \A address \in Addresses :
          /\ (BeginsCachedRead(address) /\ FreshlyRead(address))
               => /\ connection' = connection
                  /\ result'.op = "readCurrentPrice"
                  /\ result'.input.from = "cache"
                  /\ IsDefined(reader.cache[address])
                  /\ ValOf(reader.cache[address]).timestamp = ValOf(fetchedAt[address])
                  /\ result'.input.data = Some(ValOf(reader.cache[address]).data)
                  /\ reader'.cache = reader.cache
          /\ (BeginsCachedRead(address) /\ ~FreshlyRead(address))
               => /\ connection'.callCount = connection.callCount + 1
                  /\ result'.input.from = "connection"
                  /\ Len(pending') = Len(pending) + 1
          /\ CompletesCachedRead(address)
               => reader'.cache[address]
                    = Some([data |-> ValOf(result'.input.data), timestamp |-> now])
     /\ result'.op = "clearCache"
          => \A address \in Addresses : reader'.cache[address] = Undefined]_vars

\* a read was served from the cache one millisecond before its entry expired
C27_Witness ==
  /\ result.op = "readCurrentPrice"
  /\ result.input.from = "cache"
  /\ now - ValOf(reader.cache[result.input.address]).timestamp = cacheTimeout - 1
  /\ connection.callCount = 1

\* the step is a sendPriceUpdate call finishing
FinishesSend(c) == cycles[c].pc = "sending" /\ cycles'[c].pc # "sending"

\* C28: when the balance of the wallet is below minWalletBalance or the
\* estimated fee is above maxTransactionFee, sendPriceUpdate gives no
\* transaction to the network and fails, failedUpdates and errorCount go up
\* by one, and lastPrices, successfulUpdates and totalTransactions are left
\* alone.
C28_NoSubmissionWithoutFunds ==
  [][\A c \in DOMAIN cycles :
       (/\ FinishesSend(c)
        /\ \/ result'.input.answers.balance < minWalletBalance
           \/ result'.input.answers.fee > maxTransactionFee)
       => /\ result'.op = "sendPriceUpdate"
          /\ result'.input.submitted = Undefined
          /\ ~result'.success
          /\ keeper'.stats.failedUpdates = keeper.stats.failedUpdates + 1
          /\ keeper'.errorCount = keeper.errorCount + 1
          /\ keeper'.lastPrices = keeper.lastPrices
          /\ keeper'.stats.successfulUpdates = keeper.stats.successfulUpdates
          /\ keeper'.stats.totalTransactions = keeper.stats.totalTransactions]_vars

\* a sendPriceUpdate failed over the fee after an earlier one had recorded
\* a last price
C28_Witness ==
  /\ result.op = "sendPriceUpdate"
  /\ result.input.answers.balance >= minWalletBalance
  /\ result.input.answers.fee > maxTransactionFee
  /\ result.error = FeeTooHighError
  /\ keeper.stats.failedUpdates = 1
  /\ keeper.stats.successfulUpdates = 1
  /\ IsDefined(keeper.lastPrices["SOL/USDC"])

\* C30: when the oracle update instruction of a pair cannot be built,
\* sendPriceUpdate fails with the error and gives the network no
\* transaction for the pair.
C30_NoSilentFallback ==
  (result.op = "sendPriceUpdate" /\ result.input.answers.instruction = "failed")
    => /\ ~result.success
       /\ result.input.submitted = Undefined

\* C29: with a last price of the pair that is zero or negative,
\* shouldUpdatePrice answers true for every new price.
C29_AlwaysUpdateAfterNonPositive ==
  (/\ result.op = "shouldUpdatePrice"
   /\ IsDefined(keeper.lastPrices[result.input.token])
   /\ ValOf(keeper.lastPrices[result.input.token]).price <= 0)
  => result.input.answer

\* C31: a value obtained from getCurrentPrice, getPriceHistory or
\* getStatistics is not changed by a later updatePrice on the same account,
\* and updatePrice changes no sample of the ring but the one in the slot it
\* writes
C31_ReadsAreSnapshots ==
  [][ IsCall("updatePrice") =>
        /\ held.op # "none" => ReadKept(held', account') = ReadKept(held, account)
        /\ \A i \in DOMAIN account.history.entries :
              account'.history.entries[i] # account.history.entries[i]
                => i = account.history.currentIndex + 1 ]_vars

\* the slots of the ring that hold a sample
NonNullSlots(a) == { i \in DOMAIN a.history.entries : IsDefined(a.history.entries[i]) }

\* C32: after any updatePrice calls, successful or failing, on an account
\* initialized once, history.currentIndex lies in [0, maxEntries) and equals
\* statistics.totalUpdates mod maxEntries, and the ring holds
\* min(statistics.totalUpdates, maxEntries) samples
C32_RingIndexFollowsTotalUpdates ==
  (account.isInitialized /\ inits = 1) =>
     /\ account.history.currentIndex \in 0..(account.history.maxEntries - 1)
     /\ account.history.currentIndex
          = account.statistics.totalUpdates % account.history.maxEntries
     /\ Cardinality(NonNullSlots(account))
          = Min(account.statistics.totalUpdates, account.history.maxEntries)

\* C33: under any interleaving of start() and stop() at most one interval
\* timer is registered at any time, and no timer is registered while
\* isRunning is false
C33_AtMostOneTimer ==
  /\ Cardinality(timers) <= 1
  /\ ~keeper.isRunning => timers = {}

\* stats.priceUpdates.get(pair), 0 for a pair without entry
PairCount(k, pair) ==
  IF IsDefined(k.stats.priceUpdates[pair]) THEN ValOf(k.stats.priceUpdates[pair]) ELSE 0

\* the sum over the pairs of stats.priceUpdates
RECURSIVE SumPairCounts(_, _)
SumPairCounts(k, pairs) ==
  IF pairs = {} THEN 0
  ELSE LET pair == CHOOSE p \in pairs : TRUE
       IN PairCount(k, pair) + SumPairCounts(k, pairs \ {pair})

\* C34: in every state of any interleaving of sendPriceUpdate and
\* processPriceUpdates executions, stats.successfulUpdates =
\* stats.totalTransactions = the sum over the pairs of stats.priceUpdates,
\* errorCount >= stats.failedUpdates, and lastPrices holds an entry for a
\* pair exactly when stats.priceUpdates of the pair is at least 1
C34_CountersConsistent ==
  /\ keeper.stats.successfulUpdates = keeper.stats.totalTransactions
  /\ keeper.stats.totalTransactions = SumPairCounts(keeper, Pairs)
  /\ keeper.errorCount >= keeper.stats.failedUpdates
  /\ \A pair \in Pairs :
        IsDefined(keeper.lastPrices[pair]) <=> PairCount(keeper, pair) >= 1

\* two cycles are in flight at once, one of them waiting for a submission,
\* after two confirmed submissions of the first pair and a failed one
C34_Witness ==
  /\ Cardinality(InFlight) >= 2
  /\ \E c \in InFlight : cycles[c].pc = "sending"
  /\ PairCount(keeper, "SOL/USDC") = 2
  /\ keeper.stats.failedUpdates >= 1
  /\ ~IsDefined(keeper.lastPrices["BTC/USDT"])

\* C35: for an account that does not change, readPriceHistory(address,
\* limit) returns with caching what it returns without, whatever reads with
\* other limits were made before: the newest min(limit, entries) entries,
\* newest first
C35_CachedHistoryEqualsUncached ==
  (result.op = "readPriceHistory" /\ result.success) =>
     /\ result.history = HistoryOf(ReaderSlot, result.input.limit, now)
     /\ Len(result.history) <= result.input.limit
     /\ \A i \in 1..(Len(result.history) - 1) :
           result.history[i].timestamp >= result.history[i + 1].timestamp

\* C36: getPriceAccount(tokenPair, authority) returns an account info whose
\* authority is authority.publicKey and whose address is the one derived
\* from tokenPair and that authority, whatever getPriceAccount calls were
\* made before, with the same or with other authorities
C36_PriceAccountOfAuthority ==
  (result.op = "getPriceAccount" /\ result.success) =>
     LET returned == ValOf(result.input.returned)
     IN /\ returned.authority = result.signer
        /\ returned.address
             = findProgramAddress(result.input.tokenPair, result.signer,
                                  ValOf(oracle.config.oracleProgram))

\* the prices of the samples the ring retains whose timestamp is at most
\* window before t
PricesWithin(window, t) ==
  { ValOf(recorded[i].price) :
      i \in { j \in (Len(recorded) - Retained + 1)..Len(recorded) :
                recorded[j].timestamp >= t - window } }

\* the last operation is an updatePrice with a positive price that succeeded
UpdatedPositive ==
  /\ result.op = "updatePrice"
  /\ result.success
  /\ result.input.price > 0

\* C37: after a successful update with a positive price, allTimeLow <= low7d
\* <= low24h <= currentPrice.price <= high24h <= high7d <= allTimeHigh, the
\* 24h and 7d values being the extremes of the ring entries whose timestamp
\* lies in the window, the new sample included
C37_StatisticsNested ==
  UpdatedPositive =>
    LET st == account.statistics
        t == account.lastUpdated
        price == ValOf(account.currentPrice.price)
    IN /\ price = result.input.price
       /\ st.allTimeLow <= st.low7d
       /\ st.low7d <= st.low24h
       /\ st.low24h <= price
       /\ price <= st.high24h
       /\ st.high24h <= st.high7d
       /\ st.high7d <= st.allTimeHigh
       /\ price \in PricesWithin(OneDayMs, t)
       /\ st.high24h = MaxOf(PricesWithin(OneDayMs, t))
       /\ st.low24h = MinOf(PricesWithin(OneDayMs, t))
       /\ st.high7d = MaxOf(PricesWithin(SevenDaysMs, t))
       /\ st.low7d = MinOf(PricesWithin(SevenDaysMs, t))

\* validateInstructionParams accepts the confidence c, a Decimal that may be
\* NaN: neither c < minConfidence nor c > 1
AcceptsConfidence(c) ==
  /\ ~(~c.nan /\ c.num * 100 < minConfidence * c.den)
  /\ ~(~c.nan /\ c.num * 100 > maxConfidence * c.den)

\* the last operation is a processUpdatePriceInstruction that went as far as
\* account.updatePrice: its confidence was accepted by
\* validateInstructionParams
AppliedAccepted ==
  /\ result.op = ProcessOp
  /\ account.isInitialized
  /\ account.authority = Some(result.signer)
  /\ validateInstructionParams(ParamsOf(result.input, result.signer), now) = NoError

\* C38: after an update whose confidence validateInstructionParams accepted
\* has been applied to the account, validate() reports no confidence
\* violation; and validateInstructionParams accepts every confidence that
\* calculateConfidence produces for one or more sources
C38_ConfidenceScalesAgree ==
  /\ AppliedAccepted
       => \A i \in DOMAIN validate(account, now).errors :
            validate(account, now).errors[i] # "Price confidence below threshold"
  /\ (ConfidenceCall(result) /\ Len(result.input.sources) >= 1)
       => AcceptsConfidence(result.input.confidence)

\* the numeric quotes the answering sources contributed for token
NumericQuotes(responses, token) ==
  UNION { { responses[i].quotes[j].price.value :
              j \in { k \in DOMAIN responses[i].quotes :
                        /\ responses[i].quotes[k].token = token
                        /\ ~responses[i].quotes[k].price.nan } } :
          i \in { n \in DOMAIN responses : ~responses[n].failed } }

\* C39: every aggregated price fetchPrices returns is strictly positive and
\* lies between the smallest and the largest numeric quote the answering
\* sources contributed for its pair, dataPoints is the number of quotes
\* that entered the average, and every price recorded in lastPrices is
\* strictly positive
C39_AggregateWithinQuotes ==
  /\ FetchCall =>
       \A i \in DOMAIN result.history :
         LET aggregate == result.history[i]
             quotes == NumericQuotes(result.input, aggregate.token)
         IN /\ aggregate.price > 0
            /\ quotes # {}
            /\ MinOf(quotes) <= aggregate.price
            /\ aggregate.price <= MaxOf(quotes)
            /\ aggregate.dataPoints = Len(Answered(result.input, aggregate.token, 1))
  /\ \A pair \in Pairs :
       IsDefined(keeper.lastPrices[pair]) => ValOf(keeper.lastPrices[pair]).price > 0

====
